---- MODULE Spec2Model ----
(***************************************************************************)
(* PayPal -> Salesforce (NPSP) reconciliation, src/paypal_sf.py.           *)
(*                                                                         *)
(* The CRM (Contacts, RecurringDonations, Opportunities) is the state.     *)
(* One action handles one delivered PayPal transaction start to finish     *)
(* (handle_paypal_charge_external_initiation); the vendor's answer to      *)
(* get_subscription and the order in which the CRM lists the Opportunities *)
(* of a RecurringDonation are inputs of the action.  pre is the CRM as it  *)
(* was before the last delivery; cur, out, branch and io record the last   *)
(* delivery: its transaction, the exception raised ("" if none), the       *)
(* branch of the dispatch taken, and the Storage and vendor calls made.    *)
(* cands, tdate, res are the arguments and the result of the matcher; data *)
(* and built are the payload and the result of PaypalSubscription's        *)
(* from_dict, where these functions are examined on their own.  wk is the  *)
(* state of the workers where the handler is taken one Storage call at a   *)
(* time: the position of each in process_subscription_payment and its      *)
(* local variables.  eb is the Eventbrite side (src/celery_app.py,         *)
(* src/eb_sf.py): the Contacts, Campaigns, CampaignMembers and             *)
(* Opportunities it keeps in the CRM and the last attendee update handled.  *)
(* imp is the daily import task (src/import_paypal.py): the transactions   *)
(* fetched for each organization, each organization's CRM, and how far the *)
(* loops have come.  mq is the task queues and the last webhook request     *)
(* handled by queue_request.                                               *)
(*                                                                         *)
(* Dates are day numbers.  Record ids are positions in rds / opps.         *)
(***************************************************************************)
EXTENDS Integers, Sequences, FiniteSets, TLC

VARIABLES contacts, rds, opps, pre, cur, out, branch, io, cands, tdate, res, data, built, wk, eb,
          imp, mq

vars == <<contacts, rds, opps, pre, cur, out, branch, io, cands, tdate, res, data, built, wk, eb,
          imp, mq>>
crm == <<contacts, rds, opps>>
matcherVars == <<cands, tdate, res>>
parserVars == <<data, built>>

\* ------------------------------------------------------------------ bounds
MaxOpps == 4
MaxSeeded == 2
MaxCands == 3
MaxRuns == 2

\* ------------------------------------------------------------- constants
Tolerance == 10
MonthlyMin == 27
MonthlyMax == 31
YearlyAbove == 360
YearlyMax == 366

NoTxn == "none"
NoRD == 0
NoEmail == "none"
NoPeriod == "none"
NoSub == [status |-> "none", period |-> NoPeriod, email |-> NoEmail, payer_id |-> "none", id_ |-> "none", amount |-> 0]

\* ---------------------------------------------------------- event codes
SkipCodes ==
    {"T0400", "T0401", "T0003", "T0007", "T0300", "T0101", "T0200", "T1501", "T1105", "T1106"}

SingleCodes == {"T0013", "T0000", "T0011", "T0001"}

\* ---------------------------------------------------------------- matcher
Abs(n) == IF n < 0 THEN -n ELSE n

\* x[1] of the (opp, delta) pairs built at line 324
DaysDelta(close_date, transaction_date) == Abs(close_date - transaction_date)

\* a slip: the last element is returned, whatever its key
FirstMinIndex_last(deltas) == Len(deltas)

\* Python's min(seq, key=...): the first element, in list order, whose key is minimal
FirstMinIndex(deltas) ==
    CHOOSE i \in 1..Len(deltas) :
        /\ \A j \in 1..Len(deltas) : deltas[i] <= deltas[j]
        /\ \A j \in 1..(i - 1) : deltas[j] > deltas[i]

\* a slip: the boundary is excluded
ExceedsTolerance_inclusive(days_delta) == days_delta >= Tolerance

\* a slip: every candidate is rejected
ExceedsTolerance_always(days_delta) == days_delta >= 0

\* a slip: no candidate is rejected
ExceedsTolerance_never(days_delta) == days_delta < 0

ExceedsTolerance(days_delta) == days_delta > Tolerance

\* opportunities: a sequence of [id, close_date]; the result names the exception
\* raised ("ValueError" is min() of an empty list) or the opportunity returned
find_closest_opportunity(opportunities, transaction_date) ==
    IF Len(opportunities) = 0
    THEN [kind |-> "ValueError", id |-> 0]
    ELSE LET deltas == [k \in 1..Len(opportunities) |->
                           DaysDelta(opportunities[k].close_date, transaction_date)]
             i == FirstMinIndex(deltas)
         IN IF ExceedsTolerance(deltas[i])
            THEN [kind |-> "DateRangeToleranceExceeded", id |-> 0]
            ELSE [kind |-> "Matched", id |-> opportunities[i].id]

\* ---------------------------------------------------- subscription parsing
\* a slip: a gap of 360 days counts as yearly
InstallmentPeriodOfDays_from360(days) ==
    IF days >= MonthlyMin /\ days <= MonthlyMax THEN "monthly"
    ELSE IF days >= YearlyAbove /\ days <= YearlyMax THEN "yearly"
    ELSE NoPeriod

\* lines 204-209: the installment period of a day gap
InstallmentPeriodOfDays(days) ==
    IF days >= MonthlyMin /\ days <= MonthlyMax THEN "monthly"
    ELSE IF days > YearlyAbove /\ days <= YearlyMax THEN "yearly"
    ELSE NoPeriod

\* raw: the vendor's payload [id_, status, email, payer_id, amount, has_next, gap]
\* where has_next says whether billing_info.next_billing_time is present and gap
\* is next_billing_time - last_payment.time in days.  Reading the missing key
\* raises KeyError.
PaypalSubscription_from_dict(raw) ==
    LET subscription == [id_ |-> raw.id_, status |-> raw.status, email |-> raw.email,
                         payer_id |-> raw.payer_id, amount |-> raw.amount,
                         period |-> NoPeriod]
    IN IF raw.status = "CANCELLED" THEN [err |-> "", sub |-> subscription]
       ELSE IF raw.status = "SUSPENDED" THEN [err |-> "", sub |-> subscription]
       ELSE IF ~raw.has_next THEN [err |-> "KeyError", sub |-> subscription]
       ELSE [err |-> "", sub |-> [subscription EXCEPT !.period = InstallmentPeriodOfDays(raw.gap)]]

\* ------------------------------------------------------- the CRM (Storage)
\* w is the world while one transaction is handled:
\*   [contacts, rds, opps, io, out]; out = "" until an exception is raised.
Log(w, op) == [w EXCEPT !.io = Append(@, op)]

Raise(w, exc) == [w EXCEPT !.out = exc]

\* Contact(...).upsert(): keyed by email
Contact_upsert(w, email) ==
    Log([w EXCEPT !.contacts = @ \cup {email}], "Contact.upsert")

\* Opportunity.get(paypal_transaction_id=...): the id of the record, NoRD-like 0 if none
Opportunity_get(w, txn_id) ==
    IF \E i \in 1..Len(w.opps) : w.opps[i].txn = txn_id
    THEN CHOOSE i \in 1..Len(w.opps) :
            /\ w.opps[i].txn = txn_id
            /\ \A j \in 1..(i - 1) : w.opps[j].txn # txn_id
    ELSE 0

\* Opportunity(...).upsert() with no overwrite list: keyed by the transaction id;
\* creates the record when absent, leaves an existing record's fields alone
Opportunity_upsert(w, o) ==
    IF Opportunity_get(w, o.txn) # 0
    THEN Log(w, "Opportunity.upsert")
    ELSE Log([w EXCEPT !.opps = Append(@, o)], "Opportunity.upsert")

\* opportunity.save() of a record read from the CRM
Opportunity_save(w, i, o) ==
    Log([w EXCEPT !.opps[i] = o], "Opportunity.save")

\* opportunity.save() of a record that has no id yet: a create
Opportunity_create(w, o) ==
    Log([w EXCEPT !.opps = Append(@, o)], "Opportunity.save")

\* RecurringDonation.get(paypal_subscription_id=...)
RecurringDonation_get_by_subscription(w, sub_id) ==
    IF \E r \in 1..Len(w.rds) : w.rds[r].sub = sub_id
    THEN CHOOSE r \in 1..Len(w.rds) :
            /\ w.rds[r].sub = sub_id
            /\ \A q \in 1..(r - 1) : w.rds[q].sub # sub_id
    ELSE NoRD

\* RecurringDonation.get(paypal_account_id=...)
RecurringDonation_get_by_account(w, account_id) ==
    IF \E r \in 1..Len(w.rds) : w.rds[r].payer = account_id
    THEN CHOOSE r \in 1..Len(w.rds) :
            /\ w.rds[r].payer = account_id
            /\ \A q \in 1..(r - 1) : w.rds[q].payer # account_id
    ELSE NoRD

\* recurring_donation.save() of a new record
RecurringDonation_create(w, rd) ==
    Log([w EXCEPT !.rds = Append(@, rd)], "RecurringDonation.save")

\* recurring_donation.save() of an existing record
RecurringDonation_save(w, r, rd) ==
    Log([w EXCEPT !.rds[r] = rd], "RecurringDonation.save")

\* recurring_donation.opportunities(): the linked Opportunities, listed in the
\* order ord (a permutation of the Opportunity ids) the CRM happens to return
RecurringDonation_opportunities(w, r, ord) ==
    LET linked == SelectSeq(ord, LAMBDA i : i <= Len(w.opps) /\ w.opps[i].rd = r)
    IN [k \in 1..Len(linked) |-> [id |-> linked[k], close_date |-> w.opps[linked[k]].close_date]]

\* --------------------------------------------------- records from payloads
\* find_email: the transaction's email, else the subscription's; with no
\* subscription (None) the attribute read fails
find_email_fails(t, sub) == t.email = NoEmail /\ sub = NoSub

find_email(t, sub) == IF t.email # NoEmail THEN t.email ELSE sub.email

opportunity_from_paypal_transaction(t, email) ==
    [txn |-> t.id_, close_date |-> t.transaction_date, amount |-> t.gross_amount,
     donor |-> t.gross_amount, net |-> t.gross_amount - t.fee_amount,
     stage |-> "Closed Won", acct |-> t.account_id, contact |-> email,
     rd |-> NoRD, type_ |-> "", period |-> NoPeriod]

recurring_donation_from_paypal_subscription(sub, transaction_date, email) ==
    [sub |-> sub.id_, payer |-> sub.payer_id, status |-> "Open", period |-> sub.period,
     contact |-> email, established |-> transaction_date, amount |-> sub.amount]

\* a slip: the transaction id is not written
updated_opportunity_without_id(o, t) ==
    [o EXCEPT !.close_date = t.transaction_date,
              !.stage = "Closed Won",
              !.acct = t.account_id,
              !.amount = t.gross_amount,
              !.donor = t.gross_amount,
              !.net = t.gross_amount - t.fee_amount]

\* the assignments of update_opportunity, lines 311-318
updated_opportunity(o, t) ==
    [o EXCEPT !.close_date = t.transaction_date,
              !.stage = "Closed Won",
              !.txn = t.id_,
              !.acct = t.account_id,
              !.amount = t.gross_amount,
              !.donor = t.gross_amount,
              !.net = t.gross_amount - t.fee_amount]

\* update_opportunity of a record read from the CRM
update_opportunity(w, i, t) == Opportunity_save(w, i, updated_opportunity(w.opps[i], t))

\* ------------------------------------------------------------ the handlers
\* a slip: the Opportunity is upserted before the Contact
process_as_single_opportunity_opportunity_first(w, t, sub) ==
    IF find_email_fails(t, sub) THEN Raise(w, "AttributeError")
    ELSE LET email == find_email(t, sub)
             w1 == Opportunity_upsert(w, opportunity_from_paypal_transaction(t, email))
         IN Contact_upsert(w1, email)

process_as_single_opportunity(w, t, sub) ==
    IF find_email_fails(t, sub) THEN Raise(w, "AttributeError")
    ELSE LET email == find_email(t, sub)
             w1 == Contact_upsert(w, email)
         IN Opportunity_upsert(w1, opportunity_from_paypal_transaction(t, email))

\* lines 406-414: the except branch
create_installment(w, t, sub, r) ==
    IF find_email_fails(t, sub) THEN Raise(w, "AttributeError")
    ELSE LET email == find_email(t, sub)
             w1 == Contact_upsert(w, email)
             o == [opportunity_from_paypal_transaction(t, email) EXCEPT
                       !.rd = r, !.period = sub.period, !.type_ = "Recurring Donation"]
         IN IF sub.period = NoPeriod
            THEN Raise(w1, "AttributeError")   \* None.value, line 412
            ELSE Opportunity_create(w1, updated_opportunity(o, t))

\* lines 401-415
match_or_create(w, t, sub, r, ord) ==
    LET opportunities == RecurringDonation_opportunities(w, r, ord)
        w1 == Log(w, "RecurringDonation.opportunities")
        found == find_closest_opportunity(opportunities, t.transaction_date)
    IN IF found.kind = "Matched" THEN update_opportunity(w1, found.id, t)
       ELSE IF found.kind = "DateRangeToleranceExceeded" THEN create_installment(w1, t, sub, r)
       ELSE Raise(w1, found.kind)

\* a slip: a subscription that is not cancelled reopens the series
close_if_cancelled_reopens(w, sub, r) ==
    IF sub.status = "CANCELLED"
    THEN RecurringDonation_save(w, r, [w.rds[r] EXCEPT !.status = "Closed"])
    ELSE RecurringDonation_save(w, r, [w.rds[r] EXCEPT !.status = "Open"])

\* a slip: a suspended subscription closes the series too
close_if_cancelled_or_suspended(w, sub, r) ==
    IF sub.status \in {"CANCELLED", "SUSPENDED"}
    THEN RecurringDonation_save(w, r, [w.rds[r] EXCEPT !.status = "Closed"])
    ELSE w

\* lines 396-399
close_if_cancelled(w, sub, r) ==
    IF sub.status = "CANCELLED"
    THEN RecurringDonation_save(w, r, [w.rds[r] EXCEPT !.status = "Closed"])
    ELSE w

\* lines 387-394
create_recurring_donation(w, t, sub) ==
    IF find_email_fails(t, sub) THEN Raise(w, "AttributeError")
    ELSE LET email == find_email(t, sub)
             w1 == Contact_upsert(w, email)
         IN IF sub.status # "ACTIVE"
            THEN Raise(w1, "Exception: not ACTIVE")
            ELSE IF sub.period = NoPeriod
            THEN Raise(w1, "AttributeError")   \* None.value, line 296
            ELSE RecurringDonation_create(
                     w1, recurring_donation_from_paypal_subscription(sub, t.transaction_date, email))

\* a slip: a subscription without a supported period is not set aside
process_subscription_payment_any_period(w, t, sub, ord) ==
    LET r0 == RecurringDonation_get_by_subscription(w, t.reference_id)
        w0 == Log(w, "RecurringDonation.get")
    IN IF r0 = NoRD /\ sub.status = "CANCELLED" THEN process_as_single_opportunity(w0, t, sub)
       ELSE IF r0 = NoRD /\ sub.status = "SUSPENDED" THEN process_as_single_opportunity(w0, t, sub)
       ELSE LET w1 == IF r0 = NoRD THEN create_recurring_donation(w0, t, sub) ELSE w0
                r == IF r0 = NoRD THEN Len(w1.rds) ELSE r0
            IN IF w1.out # "" THEN w1
               ELSE match_or_create(close_if_cancelled(w1, sub, r), t, sub, r, ord)

process_subscription_payment(w, t, sub, ord) ==
    LET r0 == RecurringDonation_get_by_subscription(w, t.reference_id)
        w0 == Log(w, "RecurringDonation.get")
    IN IF r0 = NoRD /\ sub.status = "CANCELLED" THEN process_as_single_opportunity(w0, t, sub)
       ELSE IF r0 = NoRD /\ sub.status = "SUSPENDED" THEN process_as_single_opportunity(w0, t, sub)
       ELSE IF r0 = NoRD /\ sub.period = NoPeriod THEN process_as_single_opportunity(w0, t, sub)
       ELSE LET w1 == IF r0 = NoRD THEN create_recurring_donation(w0, t, sub) ELSE w0
                r == IF r0 = NoRD THEN Len(w1.rds) ELSE r0
            IN IF w1.out # "" THEN w1
               ELSE match_or_create(close_if_cancelled(w1, sub, r), t, sub, r, ord)

\* the vendor's payload for subscription sub_id; answer is what the vendor says
\* of it now: [status, has_next, gap]
RawSubscription(sub_id, answer) ==
    [id_ |-> sub_id, status |-> answer.status, email |-> "sub@x", payer_id |-> "A1",
     amount |-> 5, has_next |-> answer.has_next, gap |-> answer.gap]

\* a slip: a refund of an unknown transaction is skipped silently
process_refund_skips_missing(w, t, answer) ==
    LET i == Opportunity_get(w, t.reference_id)
        w0 == Log(w, "Opportunity.get")
    IN IF i = 0 THEN w0
       ELSE LET w1 == Opportunity_save(w0, i, [w0.opps[i] EXCEPT !.stage = "Refunded"])
                r == w1.opps[i].rd
            IN IF r = NoRD THEN w1
               ELSE LET w2 == Log(w1, "RecurringDonation.get")
                    IN IF w2.rds[r].status = "Closed" THEN w2
                       ELSE LET w3 == Log(w2, "Vendor.get_subscription")
                                parsed == PaypalSubscription_from_dict(
                                              RawSubscription(w2.rds[r].sub, answer))
                            IN IF parsed.err # "" THEN Raise(w3, parsed.err)
                               ELSE w3   \* line 361 compares the object with a string: never equal

\* a slip: the vendor is asked even when the series is already Closed
process_refund_asks_closed(w, t, answer) ==
    LET i == Opportunity_get(w, t.reference_id)
        w0 == Log(w, "Opportunity.get")
    IN IF i = 0 THEN Raise(w0, "AttributeError")   \* None.stage_name, line 349
       ELSE LET w1 == Opportunity_save(w0, i, [w0.opps[i] EXCEPT !.stage = "Refunded"])
                r == w1.opps[i].rd
            IN IF r = NoRD THEN w1
               ELSE LET w2 == Log(w1, "RecurringDonation.get")
                    IN IF FALSE THEN w2
                       ELSE LET w3 == Log(w2, "Vendor.get_subscription")
                                parsed == PaypalSubscription_from_dict(
                                              RawSubscription(w2.rds[r].sub, answer))
                            IN IF parsed.err # "" THEN Raise(w3, parsed.err)
                               ELSE w3   \* line 361 compares the object with a string: never equal

process_refund(w, t, answer) ==
    LET i == Opportunity_get(w, t.reference_id)
        w0 == Log(w, "Opportunity.get")
    IN IF i = 0 THEN Raise(w0, "AttributeError")   \* None.stage_name, line 349
       ELSE LET w1 == Opportunity_save(w0, i, [w0.opps[i] EXCEPT !.stage = "Refunded"])
                r == w1.opps[i].rd
            IN IF r = NoRD THEN w1
               ELSE LET w2 == Log(w1, "RecurringDonation.get")
                    IN IF w2.rds[r].status = "Closed" THEN w2
                       ELSE LET w3 == Log(w2, "Vendor.get_subscription")
                                parsed == PaypalSubscription_from_dict(
                                              RawSubscription(w2.rds[r].sub, answer))
                            IN IF parsed.err # "" THEN Raise(w3, parsed.err)
                               ELSE w3   \* line 361 compares the object with a string: never equal

\* a slip: the subscription's status is not validated
subscription_payment_by_reference_any_status(w, t, answer, ord) ==
    LET w0 == Log(w, "Vendor.get_subscription")
        parsed == PaypalSubscription_from_dict(RawSubscription(t.reference_id, answer))
    IN IF parsed.err # "" THEN Raise(w0, parsed.err)
       ELSE process_subscription_payment(w0, t, parsed.sub, ord)

\* lines 479-486: the subscription is fetched and parsed before any CRM access
subscription_payment_by_reference(w, t, answer, ord) ==
    LET w0 == Log(w, "Vendor.get_subscription")
        parsed == PaypalSubscription_from_dict(RawSubscription(t.reference_id, answer))
    IN IF parsed.err # "" THEN Raise(w0, parsed.err)
       ELSE IF parsed.sub.status \notin {"ACTIVE", "CANCELLED", "SUSPENDED"}
       THEN Raise(w0, "Exception: unknown subscription status")
       ELSE process_subscription_payment(w0, t, parsed.sub, ord)

\* a slip: with no series for the account the payment is dropped
subscription_payment_by_account_drops(w, t, ord) ==
    LET r == RecurringDonation_get_by_account(w, t.account_id)
        w0 == Log(w, "RecurringDonation.get")
    IN IF r # NoRD
       THEN LET opportunities == RecurringDonation_opportunities(w0, r, ord)
                w1 == Log(w0, "RecurringDonation.opportunities")
                found == find_closest_opportunity(opportunities, t.transaction_date)
            IN IF found.kind = "Matched" THEN update_opportunity(w1, found.id, t)
               ELSE Raise(w1, found.kind)
       ELSE w0

\* lines 488-501: no subscription id; the series is looked up by account id
subscription_payment_by_account(w, t, ord) ==
    LET r == RecurringDonation_get_by_account(w, t.account_id)
        w0 == Log(w, "RecurringDonation.get")
    IN IF r # NoRD
       THEN LET opportunities == RecurringDonation_opportunities(w0, r, ord)
                w1 == Log(w0, "RecurringDonation.opportunities")
                found == find_closest_opportunity(opportunities, t.transaction_date)
            IN IF found.kind = "Matched" THEN update_opportunity(w1, found.id, t)
               ELSE Raise(w1, found.kind)
       ELSE process_as_single_opportunity(w0, t, NoSub)

Took(w, b) == [w EXCEPT !.branch = b]

\* the conditions of the dispatch, in the order the handler tests them
is_skipped(t) == t.event_code \in SkipCodes

is_negative_received(t) == t.event_code = "T0000" /\ t.gross_amount < 0

\* a slip: a refund of amount zero is skipped too
is_positive_refund_or_zero(t) == t.event_code = "T1107" /\ t.gross_amount >= 0

is_positive_refund(t) == t.event_code = "T1107" /\ t.gross_amount > 0

is_refund(t) == t.event_code = "T1107"

is_single(t) == t.event_code \in SingleCodes

\* a slip: a code nobody listed falls through to the subscription handling
is_unknown_code_none(t) == FALSE

is_unknown_code(t) == t.event_code # "T0002"

\* a slip: a negative subscription payment is not skipped
is_negative_subscription_never(t) == FALSE

is_negative_subscription(t) == t.gross_amount < 0

\* a slip: the status is not looked at
is_not_settled_never(t) == FALSE

is_not_settled(t) == t.status # "S"

\* handle_paypal_charge_external_initiation, lines 418-501.  answer is what the
\* vendor says if asked; ord is the order in which the CRM lists Opportunities.
handle_paypal_charge_external_initiation(w, t, answer, ord) ==
    IF is_skipped(t) THEN Took(w, "Ignore")
    ELSE IF is_negative_received(t) THEN Took(w, "Ignore")
    ELSE IF is_positive_refund(t) THEN Took(w, "Ignore")
    ELSE IF is_refund(t) THEN Took(process_refund(w, t, answer), "Refund")
    ELSE IF is_single(t)
    THEN Took(process_as_single_opportunity(w, t, NoSub), "SingleOpportunity")
    ELSE IF is_unknown_code(t)
    THEN Took(Raise(w, "Exception: Unknown event code"), "Unsupported")
    ELSE IF is_negative_subscription(t) THEN Took(w, "Ignore")
    ELSE IF is_not_settled(t)
    THEN Took(Raise(w, "Exception: Transaction status isn't 'S'"), "Unsupported")
    ELSE IF t.reference_id_type = "SUB"
    THEN Took(subscription_payment_by_reference(w, t, answer, ord), "SubscriptionPayment")
    ELSE Took(subscription_payment_by_account(w, t, ord), "SubscriptionPayment")

\* ------------------------------------------------------------------ inputs
Txn(id, code, rtype, rid, acct, date, gross, fee, status, email) ==
    [id_ |-> id, event_code |-> code, reference_id_type |-> rtype, reference_id |-> rid,
     account_id |-> acct, transaction_date |-> date, gross_amount |-> gross,
     fee_amount |-> fee, status |-> status, email |-> email]

NoT == Txn(NoTxn, "none", "none", "none", "none", 0, 0, 0, "none", NoEmail)

\* The payments of subscription S1 that PayPal reports.  A transaction id names
\* one immutable ledger entry, so re-delivery delivers the same record.
Txns ==
    { Txn("P1", "T0002", "SUB", "S1", "A1", 0, 5, 1, "S", "e1"),
      Txn("P2", "T0002", "SUB", "S1", "A1", 31, 5, 1, "S", "e1"),
      Txn("P3", "T0002", "SUB", "S1", "A1", 22, 7, 1, "S", NoEmail) }

AllCodes == SkipCodes \cup SingleCodes \cup {"T1107", "T0002", "T9999", "T0006"}

\* every event code with every sign of amount and settled / pending status
ClassifyTxns ==
    { Txn("P3", code, "SUB", "S1", "A1", 22, gross, 1, status, "e1") :
        code \in AllCodes, gross \in {-5, 0, 5}, status \in {"S", "P"} }

\* what the vendor may answer to get_subscription
VendorAnswers ==
    [status : {"CANCELLED", "SUSPENDED"}, has_next : {FALSE}, gap : {0}]
    \cup [status : {"ACTIVE"}, has_next : {TRUE}, gap : {30, 45}]

NoAnswer == [status |-> "none", has_next |-> FALSE, gap |-> 0]

\* The orders in which the CRM may list n Opportunities.  min() returns the first
\* minimal element, so which of several equally close candidates is returned
\* depends only on which comes first: one order per first element gives every
\* result any order gives.
Orders(n) ==
    IF n = 0 THEN {<<>>}
    ELSE { [k \in 1..n |-> IF k = 1 THEN first
                           ELSE IF k - 1 < first THEN k - 1 ELSE k] : first \in 1..n }

\* ------------------------------------------------------------ initial CRM
\* An installment Opportunity of a series that is in the CRM before any
\* transaction is handled: pledged, carrying no transaction id yet.
Pledged(close_date, r) ==
    [txn |-> NoTxn, close_date |-> close_date, amount |-> 5, donor |-> 5, net |-> 5,
     stage |-> "Pledged", acct |-> "none", contact |-> "e1",
     rd |-> r, type_ |-> "Recurring Donation", period |-> "monthly"]

SeriesS1 ==
    [sub |-> "S1", payer |-> "A1", status |-> "Open", period |-> "monthly",
     contact |-> "e1", established |-> 0, amount |-> 5]

SeedDates == {0, 20, 24}

\* close dates of the installments already in the CRM, in id order: up to
\* MaxSeeded installments on different days
SeedSchedules ==
    UNION { { s \in [1..n -> SeedDates] : \A i, j \in 1..n : i # j => s[i] # s[j] } :
            n \in 0..MaxSeeded }

InitCRM ==
    \/ /\ contacts = {}
       /\ rds = <<>>
       /\ opps = <<>>
    \/ \E sched \in SeedSchedules :
          /\ contacts = {"e1"}
          /\ rds = <<SeriesS1>>
          /\ opps = [k \in 1..Len(sched) |-> Pledged(sched[k], 1)]

NoRes == [kind |-> "none", id |-> 0]

NoData == [id_ |-> "none", status |-> "none", email |-> NoEmail, payer_id |-> "none",
           amount |-> 0, has_next |-> FALSE, gap |-> 0]

NotBuilt == [err |-> "none", sub |-> NoSub]

\* from_dict has not been given a payload
Unparsed ==
    /\ data = NoData
    /\ built = NotBuilt

Workers == {1, 2}

\* a worker that has not been given a transaction.  pc is its position in the
\* handler, sub the parsed subscription, r the RecurringDonation it holds,
\* found the matcher's result, base the CRM as it was when the transaction was
\* first given to it, runs the number of times it has started on it, err the
\* exception that ended the run
IdleWorker ==
    [pc |-> "idle", t |-> NoT, answer |-> NoAnswer, sub |-> NoSub, r |-> NoRD,
     found |-> NoRes, base |-> [contacts |-> {}, rds |-> <<>>, opps |-> <<>>],
     runs |-> 0, err |-> ""]

\* the Eventbrite side of the CRM before any attendee update
NoAttendee ==
    [id |-> "none", valid_email |-> FALSE, found |-> FALSE, response |-> 0,
     email |-> "none",
     status |-> "none", refunded |-> FALSE, gross |-> 0, base_price |-> 0, created |-> 0,
     category |-> "none", ticket_class |-> "none", include_fee |-> FALSE]

NoEvent == [id |-> "none", name |-> "none", status |-> "none", start |-> 0, response |-> 0]

EmptyStore ==
    [contacts |-> <<>>, campaigns |-> <<>>, statuses |-> {}, members |-> <<>>, opps |-> <<>>]

NoRun == [attendee |-> NoAttendee, event |-> NoEvent, ret |-> "none", calls |-> <<>>]

\* no import task has started
NoImport ==
    [state |-> "idle", batches |-> <<>>, crms |-> <<>>, org |-> 0, at |-> 0,
     reconciled |-> <<>>, raised |-> ""]

\* no webhook request has been queued: every organization's queue is empty
NoRequests ==
    [request |-> [action |-> "none", org_slug |-> "none", response |-> 0, attendees |-> <<>>],
     queues |-> [q \in {"org1", "org2", "celery"} |-> <<>>],
     pre |-> [q \in {"org1", "org2", "celery"} |-> <<>>],
     ret |-> "none"]

Idle ==
    /\ pre = [contacts |-> contacts, rds |-> rds, opps |-> opps]
    /\ cur = [t |-> NoT, answer |-> NoAnswer]
    /\ out = ""
    /\ branch = ""
    /\ io = <<>>
    /\ wk = [k \in Workers |-> IdleWorker]
    /\ eb = [store |-> EmptyStore, pre |-> EmptyStore, run |-> NoRun, again |-> FALSE]
    /\ imp = NoImport
    /\ mq = NoRequests

Init ==
    /\ InitCRM
    /\ Idle
    /\ cands = <<>>
    /\ tdate = 0
    /\ res = NoRes
    /\ Unparsed

\* ----------------------------------------------------------------- actions
\* One delivery of transaction t, handled start to finish.  Writes made before
\* an exception stay in the CRM.  The cap on Opportunities keeps the model
\* finite.
Deliver(t, answer, ord) ==
    LET w0 == [contacts |-> contacts, rds |-> rds, opps |-> opps,
               io |-> <<>>, out |-> "", branch |-> ""]
    IN \E w \in {handle_paypal_charge_external_initiation(w0, t, answer, ord)} :
       /\ Len(w.opps) <= MaxOpps
       /\ pre' = [contacts |-> contacts, rds |-> rds, opps |-> opps]
       /\ contacts' = w.contacts
       /\ rds' = w.rds
       /\ opps' = w.opps
       /\ io' = w.io
       /\ out' = w.out
       /\ branch' = w.branch
       /\ cur' = [t |-> t,
                  answer |-> IF \E k \in 1..Len(w.io) : w.io[k] = "Vendor.get_subscription"
                             THEN answer ELSE NoAnswer]
       /\ UNCHANGED matcherVars
       /\ UNCHANGED parserVars
       /\ UNCHANGED <<wk, eb, imp, mq>>

Handle ==
    \E t \in Txns, answer \in VendorAnswers, ord \in Orders(Len(opps)) :
        Deliver(t, answer, ord)

Next == Handle

Spec == Init /\ [][Next]_vars

\* ---- the classifier over the whole taxonomy
InitClassify ==
    /\ \/ /\ contacts = {}
          /\ rds = <<>>
          /\ opps = <<>>
       \/ /\ contacts = {"e1"}
          /\ rds = <<SeriesS1>>
          /\ opps = <<Pledged(20, 1)>>
    /\ Idle
    /\ cands = <<>>
    /\ tdate = 0
    /\ res = NoRes
    /\ Unparsed

ClassifyAnswers ==
    { [status |-> "ACTIVE", has_next |-> TRUE, gap |-> 30],
      [status |-> "CANCELLED", has_next |-> FALSE, gap |-> 0] }

HandleAnyCode ==
    \E t \in ClassifyTxns, answer \in ClassifyAnswers, ord \in Orders(Len(opps)) :
        Deliver(t, answer, ord)

NextClassify == HandleAnyCode

SpecClassify == InitClassify /\ [][NextClassify]_vars

\* ---- the matcher as a function of its arguments
CandDates == {0, 20, 24, 40}

TxnDates == {22, 30, 31}

\* candidate lists: up to MaxCands Opportunities with different ids, in any order
CandLists ==
    UNION { { c \in [1..n -> [id : 1..MaxCands, close_date : CandDates]] :
                \A i, j \in 1..n : i # j => c[i].id # c[j].id } :
            n \in 0..MaxCands }

InitMatcher ==
    /\ contacts = {}
    /\ rds = <<>>
    /\ opps = <<>>
    /\ Idle
    /\ cands \in CandLists
    /\ tdate \in TxnDates
    /\ res = NoRes
    /\ Unparsed

Match ==
    /\ res = NoRes
    /\ res' = find_closest_opportunity(cands, tdate)
    /\ UNCHANGED <<contacts, rds, opps, pre, cur, out, branch, io, cands, tdate>>
    /\ UNCHANGED parserVars
    /\ UNCHANGED <<wk, eb, imp, mq>>

NextMatcher == Match

SpecMatcher == InitMatcher /\ [][NextMatcher]_vars

\* ---- subscription payments that carry no subscription id
\* T0002 transactions whose reference_id_type is not "SUB": of account A1, the
\* payer of subscription S1, dated within and beyond the tolerance of the
\* installments; of account A2, which has no series, with and without an
\* email.  P1 is the payment of S1 that makes the code create the series.
AccountTxns ==
    { Txn("P1", "T0002", "SUB", "S1", "A1", 0, 5, 1, "S", "e1"),
      Txn("Q1", "T0002", "TXN", "X1", "A1", 22, 5, 1, "S", "e1"),
      Txn("Q2", "T0002", "TXN", "X2", "A1", 40, 5, 1, "S", "e1"),
      Txn("Q3", "T0002", "TXN", "X3", "A2", 22, 5, 1, "S", "e2"),
      Txn("Q4", "T0002", "TXN", "X4", "A2", 22, 5, 1, "S", NoEmail) }

HandleByAccount ==
    \E t \in AccountTxns, answer \in VendorAnswers, ord \in Orders(Len(opps)) :
        Deliver(t, answer, ord)

NextAccount == HandleByAccount

SpecAccount == Init /\ [][NextAccount]_vars

\* ---- from_dict as a function of the vendor's payload
\* day gaps around both windows and one between them
Gaps == (20..35) \cup {45} \cup (355..370)

ParseStatuses == {"ACTIVE", "CANCELLED", "SUSPENDED", "EXPIRED"}

\* payloads with a next billing time, and payloads without one
Payloads ==
    { RawSubscription("S1", a) :
        a \in [status : ParseStatuses, has_next : {TRUE}, gap : Gaps]
              \cup [status : ParseStatuses, has_next : {FALSE}, gap : {0}] }

InitPeriod ==
    /\ contacts = {}
    /\ rds = <<>>
    /\ opps = <<>>
    /\ Idle
    /\ cands = <<>>
    /\ tdate = 0
    /\ res = NoRes
    /\ data \in Payloads
    /\ built = NotBuilt

Parse ==
    /\ built = NotBuilt
    /\ built' = PaypalSubscription_from_dict(data)
    /\ UNCHANGED <<contacts, rds, opps, pre, cur, out, branch, io, data>>
    /\ UNCHANGED matcherVars
    /\ UNCHANGED <<wk, eb, imp, mq>>

NextPeriod == Parse

SpecPeriod == InitPeriod /\ [][NextPeriod]_vars

\* ---- payments and their refunds
\* P1 is a payment of subscription S1 and D1 a standalone payment; R1 and R2
\* are the refunds of the two, R9 a refund that names a transaction the CRM
\* has never seen.
RefundTxns ==
    { Txn("P1", "T0002", "SUB", "S1", "A1", 0, 5, 1, "S", "e1"),
      Txn("D1", "T0000", "none", "none", "A2", 5, 9, 1, "S", "e2"),
      Txn("R1", "T1107", "TXN", "P1", "A1", 7, -5, 0, "S", "e1"),
      Txn("R2", "T1107", "TXN", "D1", "A2", 8, -9, 0, "S", "e2"),
      Txn("R9", "T1107", "TXN", "X9", "A2", 9, -3, 0, "S", "e2") }

InitRefund ==
    /\ \/ /\ contacts = {}
          /\ rds = <<>>
          /\ opps = <<>>
       \/ /\ contacts = {"e1"}
          /\ rds = <<SeriesS1>>
          /\ opps = <<Pledged(0, 1)>>
    /\ Idle
    /\ cands = <<>>
    /\ tdate = 0
    /\ res = NoRes
    /\ Unparsed

HandleWithRefunds ==
    \E t \in RefundTxns, answer \in VendorAnswers, ord \in Orders(Len(opps)) :
        Deliver(t, answer, ord)

NextRefund == HandleWithRefunds

SpecRefund == InitRefund /\ [][NextRefund]_vars

\* ---- subscription payments and every status the vendor may report
\* besides the statuses of VendorAnswers: subscriptions that have expired or
\* were never approved, with a next billing time in the payload and without
StatusAnswers ==
    VendorAnswers
    \cup [status : {"EXPIRED", "APPROVAL_PENDING"}, has_next : {TRUE}, gap : {30}]
    \cup [status : {"EXPIRED"}, has_next : {FALSE}, gap : {0}]

HandleAnyStatus ==
    \E t \in Txns, answer \in StatusAnswers, ord \in Orders(Len(opps)) :
        Deliver(t, answer, ord)

NextStatus == HandleAnyStatus

SpecStatus == InitClassify /\ [][NextStatus]_vars

\* ---- process_subscription_payment one Storage call at a time
\* Each action is one Storage call of worker k (or the vendor call that opens
\* the handling), so that the calls of two workers interleave and a run can be
\* abandoned between any two of them.
World ==
    [contacts |-> contacts, rds |-> rds, opps |-> opps, io |-> <<>>, out |-> "", branch |-> ""]

Commit(w) ==
    /\ contacts' = w.contacts
    /\ rds' = w.rds
    /\ opps' = w.opps

Moves(k, new) == wk' = [wk EXCEPT ![k] = new]

StepFrame ==
    /\ UNCHANGED <<pre, cur, out, branch, io>>
    /\ UNCHANGED matcherVars
    /\ UNCHANGED parserVars
    /\ UNCHANGED <<eb, imp, mq>>

\* lines 480-485: the worker is given transaction t, fetches the subscription
\* and validates its status.  A worker whose run was abandoned starts again on
\* the same transaction.
Begin(k, t, answer) ==
    /\ wk[k].pc \in {"idle", "aborted"}
    /\ wk[k].pc = "aborted" => (t = wk[k].t /\ answer = wk[k].answer)
    /\ LET parsed == PaypalSubscription_from_dict(RawSubscription(t.reference_id, answer))
           error == IF parsed.err # "" THEN parsed.err
                    ELSE IF parsed.sub.status \notin {"ACTIVE", "CANCELLED", "SUSPENDED"}
                    THEN "Exception: unknown subscription status"
                    ELSE ""
       IN Moves(k, [wk[k] EXCEPT
                       !.pc = IF error = "" THEN "get" ELSE "failed",
                       !.t = t, !.answer = answer, !.sub = parsed.sub,
                       !.r = NoRD, !.found = NoRes, !.err = error,
                       !.base = IF wk[k].pc = "idle"
                                THEN [contacts |-> contacts, rds |-> rds, opps |-> opps]
                                ELSE @,
                       !.runs = @ + 1])
    /\ UNCHANGED crm
    /\ StepFrame

\* lines 369-385: RecurringDonation.get and the tests on its result
Get(k) ==
    /\ wk[k].pc = "get"
    /\ LET r0 == RecurringDonation_get_by_subscription(World, wk[k].t.reference_id)
           sub == wk[k].sub
       IN Moves(k, [wk[k] EXCEPT
                       !.r = r0,
                       !.pc = IF r0 = NoRD /\ sub.status = "CANCELLED" THEN "single_contact"
                              ELSE IF r0 = NoRD /\ sub.status = "SUSPENDED" THEN "single_contact"
                              ELSE IF r0 = NoRD /\ sub.period = NoPeriod THEN "single_contact"
                              ELSE IF r0 = NoRD THEN "contact"
                              ELSE IF sub.status = "CANCELLED" THEN "close"
                              ELSE "list"])
    /\ UNCHANGED crm
    /\ StepFrame

\* the Contact upsert of lines 342, 389 and 408, and what follows it up to the
\* next Storage call: the exceptions of lines 289 and 296 (building the
\* RecurringDonation) and of line 412 (the installment period)
UpsertContact(k) ==
    /\ wk[k].pc \in {"single_contact", "contact", "inst_contact"}
    /\ Commit(Contact_upsert(World, find_email(wk[k].t, wk[k].sub)))
    /\ LET sub == wk[k].sub
           error == IF wk[k].pc = "contact" /\ sub.status # "ACTIVE" THEN "Exception: not ACTIVE"
                    ELSE IF wk[k].pc # "single_contact" /\ sub.period = NoPeriod THEN "AttributeError"
                    ELSE ""
       IN Moves(k, [wk[k] EXCEPT
                       !.err = error,
                       !.pc = IF error # "" THEN "failed"
                              ELSE IF wk[k].pc = "single_contact" THEN "single_opp"
                              ELSE IF wk[k].pc = "contact" THEN "save_rd"
                              ELSE "inst_save"])
    /\ StepFrame

\* line 343
UpsertOpportunity(k) ==
    /\ wk[k].pc = "single_opp"
    /\ Commit(Opportunity_upsert(
                  World, opportunity_from_paypal_transaction(
                             wk[k].t, find_email(wk[k].t, wk[k].sub))))
    /\ Moves(k, [wk[k] EXCEPT !.pc = "done"])
    /\ StepFrame

\* lines 390-394: save() of the RecurringDonation just built
SaveSeries(k) ==
    /\ wk[k].pc = "save_rd"
    /\ Commit(RecurringDonation_create(
                  World, recurring_donation_from_paypal_subscription(
                             wk[k].sub, wk[k].t.transaction_date,
                             find_email(wk[k].t, wk[k].sub))))
    /\ Moves(k, [wk[k] EXCEPT
                    !.r = Len(rds) + 1,
                    !.pc = IF wk[k].sub.status = "CANCELLED" THEN "close" ELSE "list"])
    /\ StepFrame

\* lines 396-399
CloseSeries(k) ==
    /\ wk[k].pc = "close"
    /\ Commit(close_if_cancelled(World, wk[k].sub, wk[k].r))
    /\ Moves(k, [wk[k] EXCEPT !.pc = "list"])
    /\ StepFrame

\* lines 401-403 and 406: opportunities() and the matcher
ListAndMatch(k) ==
    /\ wk[k].pc = "list"
    /\ \E ord \in Orders(Len(opps)) :
       LET found == find_closest_opportunity(
                        RecurringDonation_opportunities(World, wk[k].r, ord),
                        wk[k].t.transaction_date)
       IN Moves(k, [wk[k] EXCEPT
                       !.found = found,
                       !.err = IF found.kind = "ValueError" THEN "ValueError" ELSE "",
                       !.pc = IF found.kind = "Matched" THEN "update"
                              ELSE IF found.kind = "DateRangeToleranceExceeded"
                              THEN "inst_contact"
                              ELSE "failed"])
    /\ UNCHANGED crm
    /\ StepFrame

\* line 405
UpdateMatched(k) ==
    /\ wk[k].pc = "update"
    /\ Commit(update_opportunity(World, wk[k].found.id, wk[k].t))
    /\ Moves(k, [wk[k] EXCEPT !.pc = "done"])
    /\ StepFrame

\* lines 409-414
SaveInstallment(k) ==
    /\ wk[k].pc = "inst_save"
    /\ LET o == [opportunity_from_paypal_transaction(
                     wk[k].t, find_email(wk[k].t, wk[k].sub)) EXCEPT
                    !.rd = wk[k].r, !.period = wk[k].sub.period,
                    !.type_ = "Recurring Donation"]
       IN Commit(Opportunity_create(World, updated_opportunity(o, wk[k].t)))
    /\ Moves(k, [wk[k] EXCEPT !.pc = "done"])
    /\ StepFrame

\* the run is abandoned between two calls (the process is killed, the task
\* times out); what it wrote stays in the CRM
Abort(k) ==
    /\ wk[k].pc \notin {"idle", "done", "failed", "aborted"}
    /\ wk[k].runs < MaxRuns
    /\ Moves(k, [wk[k] EXCEPT !.pc = "aborted"])
    /\ UNCHANGED crm
    /\ StepFrame

\* ---- two workers, each given one payment of subscription S1
NextRace ==
    \/ \E k \in Workers, t \in Txns, answer \in VendorAnswers : Begin(k, t, answer)
    \/ \E k \in Workers : Get(k)
    \/ \E k \in Workers : UpsertContact(k)
    \/ \E k \in Workers : UpsertOpportunity(k)
    \/ \E k \in Workers : SaveSeries(k)
    \/ \E k \in Workers : CloseSeries(k)
    \/ \E k \in Workers : ListAndMatch(k)
    \/ \E k \in Workers : UpdateMatched(k)
    \/ \E k \in Workers : SaveInstallment(k)

SpecRace == InitClassify /\ [][NextRace]_vars

\* ---- one worker whose run may be abandoned and started again
NextAbort ==
    \/ \E t \in Txns, answer \in VendorAnswers : Begin(1, t, answer)
    \/ Get(1)
    \/ UpsertContact(1)
    \/ UpsertOpportunity(1)
    \/ SaveSeries(1)
    \/ CloseSeries(1)
    \/ ListAndMatch(1)
    \/ UpdateMatched(1)
    \/ SaveInstallment(1)
    \/ Abort(1)

SpecAbort == Init /\ [][NextAbort]_vars

\* ---- Eventbrite: handle_attendee_updated (src/celery_app.py, src/eb_sf.py)
\* eb_sf.py line 197-202
attendee_status_map ==
    ("Attending" :> "Registered") @@ ("Checked In" :> "Checked In")
    @@ ("Deleted" :> "Deleted") @@ ("Not Attending" :> "Not Attending")

\* eb_sf.py lines 86-94
status_map ==
    ("draft" :> "Planned") @@ ("live" :> "In Progress") @@ ("started" :> "In Progress")
    @@ ("ended" :> "Completed") @@ ("completed" :> "Completed")
    @@ ("canceled" :> "Aborted") @@ ("deleted" :> "Aborted")

\* the organisation's TYPE_MAP: ticket category -> Opportunity record type
type_map == ("admission" :> "Event Ticket") @@ ("donation" :> "Ignore")

\* str.lower on the record type names of type_map
lower(name) == IF name = "Ignore" THEN "ignore" ELSE name

CampaignMemberStatusLabels == {"Checked In", "Registered", "Deleted", "Not Attending"}

\* the lists passed as overwrite= to upsert()
OpportunityOverwrite ==
    {"amount", "donor_selected_amount", "eventbrite_ticket_type", "name", "net_amount",
     "record_type_name", "stage_name"}

CampaignOverwrite == {"name", "status"}

CampaignMemberOverwrite == {"status"}

\* the natural keys upsert() looks records up by
ContactKey == {"email"}

CampaignKey == {"eventbrite_id"}

CampaignMemberKey == {"contact_id", "campaign_id", "eventbrite_id"}

OpportunityKey == {"eventbrite_id"}

\* position of the first record that has new's values in the key fields, 0 if none
Position(records, key, new) ==
    IF \E i \in 1..Len(records) : \A f \in key : records[i][f] = new[f]
    THEN CHOOSE i \in 1..Len(records) :
            /\ \A f \in key : records[i][f] = new[f]
            /\ \A j \in 1..(i - 1) : \E f \in key : records[j][f] # new[f]
    ELSE 0

\* new.upsert(overwrite=...): creates the record when no record has its key;
\* otherwise writes the fields listed in overwrite and leaves the others
Upsert(records, key, new, overwrite) ==
    IF Position(records, key, new) = 0 THEN Append(records, new)
    ELSE [records EXCEPT ![Position(records, key, new)] =
             [f \in DOMAIN new |->
                 IF f \in overwrite THEN new[f] ELSE records[Position(records, key, new)][f]]]

campaign_from_eb_event(event) ==
    [eventbrite_id |-> event.id, name |-> event.name, start_date |-> event.start,
     status |-> status_map[event.status]]

\* a slip: the start date is overwritten too
upsert_campaign_with_date(s, event) ==
    [s EXCEPT !.campaigns = Upsert(@, CampaignKey, campaign_from_eb_event(event),
                                   CampaignOverwrite \cup {"start_date"}),
              !.statuses = @ \cup {<<event.id, label>> : label \in CampaignMemberStatusLabels}]

\* the Campaign's id is its position; records refer to it by the event id
upsert_campaign(s, event) ==
    [s EXCEPT !.campaigns = Upsert(@, CampaignKey, campaign_from_eb_event(event),
                                   CampaignOverwrite),
              !.statuses = @ \cup {<<event.id, label>> : label \in CampaignMemberStatusLabels}]

contact_from_eb_event(attendee) == [email |-> attendee.email, lead_source |-> "Eventbrite"]

upsert_contact(s, attendee) ==
    [s EXCEPT !.contacts = Upsert(@, ContactKey, contact_from_eb_event(attendee), {})]

\* a slip: every run adds a CampaignMember
upsert_campaign_member_inserts(s, attendee, event) ==
    [s EXCEPT !.members =
        Append(@, [contact_id |-> attendee.email, campaign_id |-> event.id,
                   eventbrite_id |-> attendee.id,
                   status |-> attendee_status_map[attendee.status]])]

upsert_campaign_member(s, attendee, event) ==
    [s EXCEPT !.members =
        Upsert(@, CampaignMemberKey,
               [contact_id |-> attendee.email, campaign_id |-> event.id,
                eventbrite_id |-> attendee.id,
                status |-> attendee_status_map[attendee.status]],
               CampaignMemberOverwrite)]

\* value / 100 keeps the cents: amounts are held in hundredths.  The name joins
\* the attendee's name and the event's.
opportunity_from_eb_event(attendee, event) ==
    [account_id |-> attendee.email,
     amount |-> attendee.gross,
     campaign_id |-> event.id,
     close_date |-> attendee.created,
     contact_id_for_role |-> attendee.email,
     donor_selected_amount |-> IF attendee.include_fee THEN attendee.gross
                               ELSE attendee.base_price,
     eventbrite_ticket_type |-> attendee.ticket_class,
     eventbrite_id |-> attendee.id,
     lead_source |-> "Eventbrite",
     name |-> <<attendee.id, event.name>>,
     net_amount |-> attendee.base_price,
     record_type_name |-> type_map[attendee.category],
     stage_name |-> IF attendee.refunded THEN "Refunded" ELSE "Closed Won"]

upsert_opportunity(s, attendee, event) ==
    [s EXCEPT !.opps = Upsert(@, OpportunityKey, opportunity_from_eb_event(attendee, event),
                              OpportunityOverwrite)]

\* check_eventbrite_status_code: the exception raised for an HTTP status, "" if none
check_eventbrite_status_code(response) ==
    IF response = 429 THEN "RateLimitException"
    ELSE IF response = 404 THEN "NotFoundException"
    ELSE IF response >= 400 THEN "Exception"
    ELSE ""

\* the run so far: the CRM, the calls made, and what the run returned or raised
Ran(s, calls, ret) == [store |-> s, ret |-> ret, calls |-> calls]

CampaignCalls ==
    <<"Campaign.upsert", "CampaignMemberStatus.get_or_create",
      "CampaignMemberStatus.get_or_create", "CampaignMemberStatus.get_or_create",
      "CampaignMemberStatus.get_or_create">>

\* lines 132-155: the upserts, after attendee and event have been fetched
reconcile_attendee(s, attendee, event, fetched) ==
    IF event.status \notin DOMAIN status_map THEN Ran(s, fetched, "KeyError")
    ELSE LET s1 == upsert_contact(upsert_campaign(s, event), attendee)
             c1 == fetched \o CampaignCalls \o <<"Contact.upsert">>
         IN IF attendee.status \notin DOMAIN attendee_status_map
            THEN Ran(s1, c1, "KeyError")
            ELSE LET s2 == upsert_campaign_member(s1, attendee, event)
                     c2 == Append(c1, "CampaignMember.upsert")
                 IN IF attendee.category = "add_on" THEN Ran(s2, c2, "True")
                    ELSE IF attendee.category \notin DOMAIN type_map
                    THEN Ran(s2, c2, "KeyError")
                    ELSE IF lower(type_map[attendee.category]) = "ignore"
                    THEN Ran(s2, c2, "True")
                    ELSE IF attendee.gross > 0
                    THEN Ran(upsert_opportunity(s2, attendee, event),
                             Append(c2, "Opportunity.upsert"), "True")
                    ELSE Ran(s2, c2, "True")

\* a slip: the attendee is fetched before the email is looked at
handle_attendee_updated_fetches_first(s, attendee, event) ==
    IF check_eventbrite_status_code(attendee.response) = "NotFoundException"
    THEN Ran(s, <<"Vendor.get_event_attendee">>, "True")
    ELSE IF check_eventbrite_status_code(attendee.response) # ""
    THEN Ran(s, <<"Vendor.get_event_attendee">>,
             check_eventbrite_status_code(attendee.response))
    ELSE IF ~attendee.valid_email THEN Ran(s, <<"Vendor.get_event_attendee">>, "None")
    ELSE IF check_eventbrite_status_code(event.response) # ""
    THEN Ran(s, <<"Vendor.get_event_attendee", "Vendor.get_event">>,
             check_eventbrite_status_code(event.response))
    ELSE reconcile_attendee(s, attendee, event,
                            <<"Vendor.get_event_attendee", "Vendor.get_event">>)

\* handle_attendee_updated, celery_app.py lines 99-155.  attendee is the webhook's
\* payload together with what Eventbrite returns for it when fetched, response
\* being the HTTP status of that answer; the result is the CRM after the run, the
\* calls made, and what the run returned or raised.
handle_attendee_updated(s, attendee, event) ==
    IF ~attendee.valid_email THEN Ran(s, <<>>, "None")
    ELSE IF check_eventbrite_status_code(attendee.response) = "NotFoundException"
    THEN Ran(s, <<"Vendor.get_event_attendee">>, "True")
    ELSE IF check_eventbrite_status_code(attendee.response) # ""
    THEN Ran(s, <<"Vendor.get_event_attendee">>,
             check_eventbrite_status_code(attendee.response))
    ELSE IF check_eventbrite_status_code(event.response) # ""
    THEN Ran(s, <<"Vendor.get_event_attendee", "Vendor.get_event">>,
             check_eventbrite_status_code(event.response))
    ELSE reconcile_attendee(s, attendee, event,
                            <<"Vendor.get_event_attendee", "Vendor.get_event">>)

\* what Eventbrite says of attendee at1 of event ev1 when asked: the email, the
\* status, the cost and the refund flag change over time
Attendee(email, status, refunded, gross, category) ==
    [id |-> "at1", valid_email |-> TRUE, found |-> TRUE, response |-> 200, email |-> email,
     status |-> status, refunded |-> refunded, gross |-> gross,
     base_price |-> IF gross > 0 THEN gross - 100 ELSE 0, created |-> 3,
     category |-> category, ticket_class |-> category, include_fee |-> category = "admission"]

\* the last five: a ticket class the event does not list, an attendee Eventbrite
\* does not know, answers that are a rate limit or a server error, an email that
\* is not valid
AttendeeUpdates ==
    { Attendee("a@x", "Attending", FALSE, 1000, "admission"),
      Attendee("a@x", "Checked In", FALSE, 2000, "admission"),
      Attendee("a@x", "Attending", TRUE, 1000, "admission"),
      Attendee("b@x", "Attending", FALSE, 1000, "admission"),
      Attendee("a@x", "Unpaid", FALSE, 1000, "admission"),
      Attendee("a@x", "Attending", FALSE, 0, "admission"),
      Attendee("a@x", "Attending", FALSE, 1000, "add_on"),
      Attendee("a@x", "Attending", FALSE, 1000, "donation"),
      Attendee("a@x", "Attending", FALSE, 1000, "unlisted"),
      [Attendee("a@x", "Attending", FALSE, 1000, "admission") EXCEPT
          !.found = FALSE, !.response = 404],
      [Attendee("a@x", "Attending", FALSE, 1000, "admission") EXCEPT !.response = 429],
      [Attendee("a@x", "Attending", FALSE, 1000, "admission") EXCEPT !.response = 500],
      [Attendee("a@x", "Attending", FALSE, 1000, "admission") EXCEPT !.valid_email = FALSE] }

\* the event as Eventbrite returns it: it may be renamed, rescheduled, ended;
\* the last is a rate-limit answer
Events ==
    { [id |-> "ev1", name |-> "Gala", status |-> "live", start |-> 10, response |-> 200],
      [id |-> "ev1", name |-> "Gala 2", status |-> "ended", start |-> 17, response |-> 200],
      [id |-> "ev1", name |-> "Gala", status |-> "live", start |-> 10, response |-> 429] }

HandleAttendeeUpdated ==
    /\ \E attendee \in AttendeeUpdates, event \in Events :
          \E result \in {handle_attendee_updated(eb.store, attendee, event)} :
             eb' = [store |-> result.store, pre |-> eb.store,
                    run |-> [attendee |-> attendee, event |-> event, ret |-> result.ret,
                            calls |-> result.calls],
                    again |-> (attendee = eb.run.attendee /\ event = eb.run.event)]
    /\ UNCHANGED <<contacts, rds, opps, pre, cur, out, branch, io, wk, imp, mq>>
    /\ UNCHANGED matcherVars
    /\ UNCHANGED parserVars

NextEventbrite == HandleAttendeeUpdated

SpecEventbrite == InitClassify /\ [][NextEventbrite]_vars

\* ---- the daily import: import_last_x_days_paypal, import_org_period
\* the organizations of PAYPAL_ORGS, in the order of its values()
Orgs == <<"org1", "org2">>

\* the longest list of transactions the vendor returns for one organization
MaxBatch == 2

\* what the vendor may report for a period: donations, a fee, a transaction of
\* an event code nobody has listed, and a first payment of subscription S1
ImportTxns ==
    { Txn("D1", "T0000", "none", "none", "A2", 5, 9, 1, "S", "e2"),
      Txn("D2", "T0013", "none", "none", "A3", 6, 4, 1, "S", "e3"),
      Txn("F1", "T0400", "none", "none", "A2", 6, -1, 0, "S", "e2"),
      Txn("U1", "T9999", "none", "none", "A2", 7, 3, 0, "S", "e2"),
      Txn("P1", "T0002", "SUB", "S1", "A1", 0, 5, 1, "S", "e1") }

\* what get_subscription answers during the import
ImportAnswer == [status |-> "ACTIVE", has_next |-> TRUE, gap |-> 30]

\* ppc.get_transactions(url): the transactions of the period, pages joined
Batches == UNION { [1..n -> ImportTxns] : n \in 0..MaxBatch }

EmptyCRM == [contacts |-> {}, rds |-> <<>>, opps |-> <<>>]

\* a slip: a transaction that raises is passed over
import_org_period_step_isolated(m, ord) ==
    LET c == m.crms[m.org]
        w == handle_paypal_charge_external_initiation(
                 [contacts |-> c.contacts, rds |-> c.rds, opps |-> c.opps,
                  io |-> <<>>, out |-> "", branch |-> ""],
                 m.batches[m.org][m.at], ImportAnswer, ord)
    IN [m EXCEPT !.crms[m.org] = [contacts |-> w.contacts, rds |-> w.rds, opps |-> w.opps],
                 !.reconciled = Append(@, [org |-> m.org, at |-> m.at, out |-> w.out]),
                 !.at = @ + 1]

\* one turn of the loop of import_org_period (lines 45-46): the next transaction
\* of the organization is handled; an exception leaves the loop, import_org_period
\* and the loop over the organizations, and ends the task
import_org_period_step(m, ord) ==
    LET c == m.crms[m.org]
        w == handle_paypal_charge_external_initiation(
                 [contacts |-> c.contacts, rds |-> c.rds, opps |-> c.opps,
                  io |-> <<>>, out |-> "", branch |-> ""],
                 m.batches[m.org][m.at], ImportAnswer, ord)
    IN [m EXCEPT !.crms[m.org] = [contacts |-> w.contacts, rds |-> w.rds, opps |-> w.opps],
                 !.reconciled = Append(@, [org |-> m.org, at |-> m.at, out |-> w.out]),
                 !.at = IF w.out = "" THEN @ + 1 ELSE @,
                 !.state = IF w.out = "" THEN @ ELSE "failed",
                 !.raised = w.out]

ImportFrame ==
    /\ UNCHANGED <<contacts, rds, opps, pre, cur, out, branch, io, wk, eb, mq>>
    /\ UNCHANGED matcherVars
    /\ UNCHANGED parserVars

\* the task starts; every organization has its own CRM and its own transactions
StartImport ==
    /\ imp.state = "idle"
    /\ \E batches \in [1..Len(Orgs) -> Batches] :
          imp' = [state |-> "running", batches |-> batches,
                  crms |-> [o \in 1..Len(Orgs) |-> EmptyCRM],
                  org |-> 1, at |-> 1, reconciled |-> <<>>, raised |-> ""]
    /\ ImportFrame

ReconcileNext ==
    /\ imp.state = "running"
    /\ imp.at <= Len(imp.batches[imp.org])
    /\ \E ord \in Orders(Len(imp.crms[imp.org].opps)) :
          imp' = import_org_period_step(imp, ord)
    /\ ImportFrame

\* import_org_period returns; the loop of import_last_x_days_paypal goes on
NextOrganization ==
    /\ imp.state = "running"
    /\ imp.at > Len(imp.batches[imp.org])
    /\ imp' = IF imp.org = Len(Orgs) THEN [imp EXCEPT !.state = "done"]
              ELSE [imp EXCEPT !.org = @ + 1, !.at = 1]
    /\ ImportFrame

NextImport == StartImport \/ ReconcileNext \/ NextOrganization

SpecImport == InitClassify /\ [][NextImport]_vars

\* ---- webhook requests: queue_request (src/celery_app.py lines 215-246)
\* the organizations of ORGS, by slug
OrgSlugs == {"org1", "org2"}

\* task_queues: one queue per organization and the default queue
QueueNames == OrgSlugs \cup {"celery"}

\* the most tasks waiting in all queues together
MaxQueued == 3

WebhookActions ==
    {"attendee.updated", "event.updated", "event.created", "barcode.checked_in",
     "order.placed", "order.updated", "order.refunded", "organizer.updated"}

\* what webhook_to_object returns for the request (response is its HTTP status)
\* and, for an order, the attendees get_order lists
Requests ==
    [action : WebhookActions, org_slug : OrgSlugs, response : {200, 404},
     attendees : {<<>>, <<"at1", "at2">>}]

\* task.apply_async(queue=..., kwargs=...)
apply_async(queues, queue, task, arg) ==
    [queues EXCEPT ![queue] = Append(@, [task |-> task, arg |-> arg, org_slug |-> queue])]

\* lines 236-240: the loop over the attendees of the order
RECURSIVE queue_attendees(_, _, _)
queue_attendees(queues, org_slug, attendees) ==
    IF attendees = <<>> THEN queues
    ELSE queue_attendees(
             apply_async(queues, org_slug, "handle_attendee_updated", Head(attendees)),
             org_slug, Tail(attendees))

\* a slip: the attendees of an order go to the default queue
queue_request_default_queue(queues, request) ==
    IF request.response = 404 THEN [queues |-> queues, ret |-> "None"]
    ELSE IF request.action = "attendee.updated"
    THEN [queues |-> apply_async(queues, request.org_slug, "handle_attendee_updated", "object"),
          ret |-> "True"]
    ELSE IF request.action \in {"event.updated", "event.created"}
    THEN [queues |-> apply_async(queues, request.org_slug, "handle_event_updated", "object"),
          ret |-> "True"]
    ELSE IF request.action = "barcode.checked_in"
    THEN [queues |-> apply_async(queues, request.org_slug, "handle_attendee_checked_in",
                                 "object"),
          ret |-> "True"]
    ELSE IF request.action \in {"order.placed", "order.updated", "order.refunded"}
    THEN [queues |-> queue_attendees(queues, "celery", request.attendees), ret |-> "True"]
    ELSE [queues |-> queues, ret |-> "True"]

\* queue_request(action, org_slug, the_request): the queues after it, and what
\* it returned
queue_request(queues, request) ==
    IF request.response = 404 THEN [queues |-> queues, ret |-> "None"]
    ELSE IF request.action = "attendee.updated"
    THEN [queues |-> apply_async(queues, request.org_slug, "handle_attendee_updated", "object"),
          ret |-> "True"]
    ELSE IF request.action \in {"event.updated", "event.created"}
    THEN [queues |-> apply_async(queues, request.org_slug, "handle_event_updated", "object"),
          ret |-> "True"]
    ELSE IF request.action = "barcode.checked_in"
    THEN [queues |-> apply_async(queues, request.org_slug, "handle_attendee_checked_in",
                                 "object"),
          ret |-> "True"]
    ELSE IF request.action \in {"order.placed", "order.updated", "order.refunded"}
    THEN [queues |-> queue_attendees(queues, request.org_slug, request.attendees),
          ret |-> "True"]
    ELSE [queues |-> queues, ret |-> "True"]

Waiting(queues) == Len(queues["org1"]) + Len(queues["org2"]) + Len(queues["celery"])

QueueFrame ==
    /\ UNCHANGED <<contacts, rds, opps, pre, cur, out, branch, io, wk, eb, imp>>
    /\ UNCHANGED matcherVars
    /\ UNCHANGED parserVars

QueueRequest ==
    /\ \E request \in Requests :
          \E result \in {queue_request(mq.queues, request)} :
             /\ Waiting(result.queues) <= MaxQueued
             /\ mq' = [request |-> request, queues |-> result.queues, pre |-> mq.queues,
                       ret |-> result.ret]
    /\ QueueFrame

\* a worker of the queue takes its first task
TakeTask ==
    /\ \E q \in QueueNames :
          /\ mq.queues[q] # <<>>
          /\ mq' = [mq EXCEPT !.queues[q] = Tail(@), !.pre = mq.queues,
                              !.request = NoRequests.request, !.ret = "none"]
    /\ QueueFrame

NextQueue == QueueRequest \/ TakeTask

SpecQueue == InitClassify /\ [][NextQueue]_vars

\* ================================================================== claims
\* ---- the matcher (SpecMatcher)
Delta(k) == Abs(cands[k].close_date - tdate)

IsClosest(k) == \A j \in 1..Len(cands) : Delta(k) <= Delta(j)

Example0_20_40 ==
    <<[id |-> 1, close_date |-> 0], [id |-> 2, close_date |-> 20], [id |-> 3, close_date |-> 40]>>

\* C5: whenever find_closest_opportunity returns a candidate of a non-empty list,
\* no other candidate is strictly closer to the transaction date; it returns one
\* whenever some candidate is within the tolerance; installments at days 0, 20,
\* 40 and a transaction at day 22 select day 20.
C5_MatcherReturnsClosest ==
    res # NoRes =>
        /\ res.kind = "Matched" =>
              \E k \in 1..Len(cands) : cands[k].id = res.id /\ IsClosest(k)
        /\ (\E k \in 1..Len(cands) : Delta(k) <= 10) => res.kind = "Matched"
        /\ (cands = Example0_20_40 /\ tdate = 22) => res = [kind |-> "Matched", id |-> 2]

C5_Witness ==
    /\ cands = Example0_20_40
    /\ tdate = 22
    /\ res = [kind |-> "Matched", id |-> 2]

\* C6: find_closest_opportunity raises DateRangeToleranceExceeded exactly when
\* the list is non-empty and its minimum day-delta is greater than 10: a minimum
\* of exactly 10 succeeds, 11 raises.
C6_ToleranceBoundary ==
    res # NoRes =>
        (res.kind = "DateRangeToleranceExceeded"
            <=> /\ Len(cands) > 0
                /\ \A k \in 1..Len(cands) : Delta(k) > 10)

\* a nearest candidate exactly 10 days away is matched
C6_Witness ==
    /\ Len(cands) > 0
    /\ \E k \in 1..Len(cands) : IsClosest(k) /\ Delta(k) = 10
    /\ res.kind = "Matched"

\* a nearest candidate 11 days away raises
C6_Witness11 ==
    /\ Len(cands) > 0
    /\ \E k \in 1..Len(cands) : IsClosest(k) /\ Delta(k) = 11
    /\ res.kind = "DateRangeToleranceExceeded"

\* the tie-break the specification asks for: earliest close_date, then lowest id
IsPreferred(k) ==
    /\ IsClosest(k)
    /\ \A j \in 1..Len(cands) :
          IsClosest(j) =>
              \/ cands[k].close_date < cands[j].close_date
              \/ cands[k].close_date = cands[j].close_date /\ cands[k].id <= cands[j].id

\* C7: among candidates sharing the minimum day-delta the one returned is the
\* one with the earliest close_date, then the lowest id, whatever the order of
\* the list.
C7_TieBreakDeterministic ==
    res.kind = "Matched" =>
        \E k \in 1..Len(cands) : cands[k].id = res.id /\ IsPreferred(k)

\* ---- the classifier (SpecClassify)
Handled == cur.t # NoT

Code == cur.t.event_code

Gross == cur.t.gross_amount

\* the event codes the specification's dispatch table lists
IgnoredCodes ==
    {"T0400", "T0401", "T0003", "T0007", "T0300", "T0101", "T0200", "T1501", "T1105", "T1106"}

StandaloneCodes == {"T0013", "T0000", "T0011", "T0001"}

Taxonomy == IgnoredCodes \cup StandaloneCodes \cup {"T1107", "T0002"}

Actions == {"Ignore", "SingleOpportunity", "SubscriptionPayment", "Refund", "Unsupported"}

\* C2: every delivery takes exactly one of the five branches; a listed code never
\* ends as an unknown event code; an event code outside the taxonomy raises the
\* unknown-event-code error before any Storage or vendor call; Ignore makes no
\* call and raises nothing.
C2_ClassifierTotal ==
    Handled =>
        /\ branch \in Actions
        /\ Code \notin Taxonomy =>
              /\ branch = "Unsupported"
              /\ out = "Exception: Unknown event code"
              /\ io = <<>>
        /\ Code \in Taxonomy => out # "Exception: Unknown event code"
        /\ Code \in IgnoredCodes => branch = "Ignore"
        /\ Code \in StandaloneCodes => branch \in {"Ignore", "SingleOpportunity"}
        /\ branch = "Unsupported" => out # "" /\ io = <<>>
        /\ branch = "Ignore" => out = "" /\ io = <<>>

C2_Witness ==
    /\ Code \in {"T9999", "T0006"}
    /\ branch = "Unsupported"
    /\ out = "Exception: Unknown event code"
    /\ io = <<>>

\* C3: T1107 is handled as Refund (process_refund runs: it reads the referenced
\* Opportunity) exactly when its gross amount is not positive and is ignored
\* with no call otherwise; T0000 is ignored when its gross amount is negative
\* and handled as SingleOpportunity otherwise.
C3_RefundAndReceivedBySign ==
    Handled =>
        /\ Code = "T1107" /\ Gross <= 0 =>
              branch = "Refund" /\ Len(io) > 0 /\ io[1] = "Opportunity.get"
        /\ Code = "T1107" /\ Gross > 0 =>
              branch = "Ignore" /\ io = <<>> /\ out = "" /\ crm = <<pre.contacts, pre.rds, pre.opps>>
        /\ Code = "T0000" /\ Gross < 0 => branch = "Ignore" /\ io = <<>>
        /\ Code = "T0000" /\ Gross >= 0 => branch = "SingleOpportunity"
        /\ branch = "Refund" => Code = "T1107"

C3_Witness ==
    /\ Code = "T1107"
    /\ Gross = 0
    /\ branch = "Refund"
    /\ io[1] = "Opportunity.get"

\* C4 as claimed: a T0002 transaction whose status is not "S" always ends in a
\* fatal error.
C4_NotSettledAlwaysFatal ==
    (Handled /\ Code = "T0002" /\ cur.t.status # "S") =>
        branch = "Unsupported" /\ out # ""

\* C4 amended: T0002 is handled as SubscriptionPayment exactly when status is "S"
\* and the gross amount is not negative; a negative amount is ignored whatever
\* the status; a non-negative amount with any other status is a fatal error
\* raised before any call.
C4_SubscriptionGuards ==
    (Handled /\ Code = "T0002") =>
        /\ branch = "SubscriptionPayment" <=> (cur.t.status = "S" /\ Gross >= 0)
        /\ Gross < 0 => branch = "Ignore" /\ io = <<>> /\ out = ""
        /\ (Gross >= 0 /\ cur.t.status # "S") =>
              /\ branch = "Unsupported"
              /\ out = "Exception: Transaction status isn't 'S'"
              /\ io = <<>>

C4_Witness ==
    /\ Code = "T0002"
    /\ Gross >= 0
    /\ cur.t.status = "P"
    /\ branch = "Unsupported"
    /\ out = "Exception: Transaction status isn't 'S'"

\* ---- reconciliation of subscription payments (Spec)
Carriers(os, id) == {i \in 1..Len(os) : os[i].txn = id}

Linked(os, r) == {i \in 1..Len(os) : os[i].rd = r}

Called(op) == \E k \in 1..Len(io) : io[k] = op

\* the RecurringDonation of the delivered payment's subscription before the delivery
PreSeries == RecurringDonation_get_by_subscription(pre, cur.t.reference_id)

BySubscription ==
    /\ Handled
    /\ branch = "SubscriptionPayment"
    /\ cur.t.reference_id_type = "SUB"

\* the period the vendor's answer gives the subscription
AnswerPeriod ==
    IF cur.answer.status = "ACTIVE" /\ cur.answer.has_next
    THEN IF cur.answer.gap \in 27..31 THEN "monthly"
         ELSE IF cur.answer.gap \in 361..366 THEN "yearly" ELSE "none"
    ELSE "none"

\* C1: no two Opportunities carry the same transaction id, and delivering a
\* transaction whose id an Opportunity already carries adds no Opportunity.
C1_OneOpportunityPerTransaction ==
    /\ \A i, j \in 1..Len(opps) :
          (opps[i].txn = opps[j].txn /\ opps[i].txn # "none") => i = j
    /\ (Handled /\ Carriers(pre.opps, cur.t.id_) # {}) => Len(opps) = Len(pre.opps)

\* a second delivery on the subscription path: the matcher found the Opportunity
C1_Witness ==
    /\ BySubscription
    /\ out = ""
    /\ Called("RecurringDonation.opportunities")
    /\ Carriers(pre.opps, cur.t.id_) # {}
    /\ Cardinality(Carriers(opps, cur.t.id_)) = 1

\* a second delivery on the standalone path: the upsert found the Opportunity
C1_WitnessStandalone ==
    /\ Handled
    /\ out = ""
    /\ Called("Opportunity.upsert")
    /\ Carriers(pre.opps, cur.t.id_) # {}
    /\ Cardinality(Carriers(opps, cur.t.id_)) = 1

\* the series exists and has installments, none within 10 days of the payment
NoCandidateInTolerance ==
    /\ BySubscription
    /\ PreSeries # 0
    /\ Linked(pre.opps, PreSeries) # {}
    /\ \A i \in Linked(pre.opps, PreSeries) :
          Abs(pre.opps[i].close_date - cur.t.transaction_date) > 10

\* one Opportunity was added, linked to series r, and the others are as before
InstallmentAdded(r) ==
    /\ Len(opps) = Len(pre.opps) + 1
    /\ opps[Len(opps)].rd = r
    /\ opps[Len(opps)].type_ = "Recurring Donation"
    /\ opps[Len(opps)].txn = cur.t.id_
    /\ opps[Len(opps)].close_date = cur.t.transaction_date
    /\ \A i \in 1..Len(pre.opps) : opps[i] = pre.opps[i]

\* C8: when the series has candidates but none within 10 days, exactly one
\* Opportunity is created, linked to the series, of type "Recurring Donation"
\* with the derived installment period, and no earlier Opportunity is modified.
C8_NewInstallmentWhenOutOfTolerance ==
    NoCandidateInTolerance =>
        /\ InstallmentAdded(PreSeries)
        /\ opps[Len(opps)].period = AnswerPeriod

\* C9: the first payment of an ACTIVE subscription with a 30-day gap, nothing of
\* the series being in the CRM yet, completes and leaves a Contact, an Open
\* monthly RecurringDonation and one Closed Won Opportunity linked to it.
C9_FirstSightingCreatesSeries ==
    (/\ BySubscription
     /\ PreSeries = 0
     /\ pre.opps = <<>>
     /\ cur.answer = [status |-> "ACTIVE", has_next |-> TRUE, gap |-> 30]) =>
        /\ out = ""
        /\ contacts # {}
        /\ Len(rds) = 1
        /\ rds[1].status = "Open"
        /\ rds[1].period = "monthly"
        /\ Len(opps) = 1
        /\ opps[1].rd = 1
        /\ opps[1].stage = "Closed Won"

\* the series consists of one Opportunity, left by an earlier payment
AfterFirstPayment ==
    /\ BySubscription
    /\ PreSeries # 0
    /\ Cardinality(Linked(pre.opps, PreSeries)) = 1
    /\ \A i \in Linked(pre.opps, PreSeries) :
          pre.opps[i].txn \notin {"none", cur.t.id_}

FirstOpp == CHOOSE i \in Linked(pre.opps, PreSeries) : TRUE

DaysAfterFirst == cur.t.transaction_date - pre.opps[FirstOpp].close_date

UpdatedInPlace(i) ==
    /\ opps[i].close_date = cur.t.transaction_date
    /\ opps[i].amount = cur.t.gross_amount
    /\ Len(opps) = Len(pre.opps)
    /\ Linked(opps, PreSeries) = Linked(pre.opps, PreSeries)

\* C10 as claimed: a second payment dated 31 days after the first, the
\* subscription being ACTIVE and monthly, updates the first Opportunity in place
\* and the series gets no further Opportunity.
C10_SecondPayment31DaysUpdatesInPlace ==
    (AfterFirstPayment /\ DaysAfterFirst = 31 /\ AnswerPeriod = "monthly") =>
        out = "" /\ UpdatedInPlace(FirstOpp)

\* C10 amended: the second payment updates the first Opportunity in place, the
\* series getting no further Opportunity, when it is dated within 10 days of it;
\* dated 31 days later it leaves the first Opportunity as it was, and for an
\* ACTIVE subscription of monthly or yearly period it becomes a new Opportunity
\* of the series.
C10_SecondPaymentByTolerance ==
    AfterFirstPayment =>
        /\ Abs(DaysAfterFirst) <= 10 => out = "" /\ UpdatedInPlace(FirstOpp)
        /\ DaysAfterFirst = 31 =>
              /\ opps[FirstOpp] = pre.opps[FirstOpp]
              /\ AnswerPeriod # "none" => out = "" /\ InstallmentAdded(PreSeries)

C10_Witness ==
    /\ AfterFirstPayment
    /\ DaysAfterFirst = 31
    /\ out = ""
    /\ InstallmentAdded(PreSeries)

C10_WitnessInPlace ==
    /\ AfterFirstPayment
    /\ DaysAfterFirst \in 1..10
    /\ out = ""
    /\ UpdatedInPlace(FirstOpp)

\* ---- payments without a subscription id (SpecAccount)
ByAccount ==
    /\ Handled
    /\ branch = "SubscriptionPayment"
    /\ cur.t.reference_id_type # "SUB"

\* the RecurringDonation of the delivered payment's account before the delivery
PreSeriesByAccount == RecurringDonation_get_by_account(pre, cur.t.account_id)

\* the series found by account has installments, none within 10 days of the payment
NoCandidateInToleranceByAccount ==
    /\ ByAccount
    /\ PreSeriesByAccount # NoRD
    /\ Linked(pre.opps, PreSeriesByAccount) # {}
    /\ \A i \in Linked(pre.opps, PreSeriesByAccount) :
          Abs(pre.opps[i].close_date - cur.t.transaction_date) > 10

\* C11: for a payment without a subscription id whose RecurringDonation is found
\* by account id, DateRangeToleranceExceeded from the matcher is caught: a new
\* installment Opportunity of the series is created and the error does not
\* reach the caller.
C11_ToleranceErrorCaughtByAccount ==
    NoCandidateInToleranceByAccount =>
        /\ out # "DateRangeToleranceExceeded"
        /\ InstallmentAdded(PreSeriesByAccount)

\* the CRM before the delivery, as the world a handler starts in
PreWorld ==
    [contacts |-> pre.contacts, rds |-> pre.rds, opps |-> pre.opps,
     io |-> <<>>, out |-> "", branch |-> ""]

\* what the dispatch does with the delivered transaction had it carried the
\* "received payment" code, which is handled as SingleOpportunity
AsReceivedPayment ==
    handle_paypal_charge_external_initiation(
        PreWorld, [cur.t EXCEPT !.event_code = "T0000"], NoAnswer, <<>>)

\* C12: a settled, non-negative subscription payment without a subscription id
\* never asks the vendor for a subscription and creates no RecurringDonation;
\* when no RecurringDonation exists for its account id it does, after the
\* lookup, exactly what SingleOpportunity handling does: Contact upsert, then
\* upsert of a standalone Opportunity.
C12_ByAccountWithoutSeriesIsSingle ==
    ByAccount =>
        /\ ~Called("Vendor.get_subscription")
        /\ rds = pre.rds
        /\ PreSeriesByAccount = NoRD =>
              /\ AsReceivedPayment.branch = "SingleOpportunity"
              /\ io = <<"RecurringDonation.get">> \o AsReceivedPayment.io
              /\ out = AsReceivedPayment.out
              /\ contacts = AsReceivedPayment.contacts
              /\ opps = AsReceivedPayment.opps
              /\ cur.t.email # NoEmail =>
                    /\ out = ""
                    /\ io = <<"RecurringDonation.get", "Contact.upsert", "Opportunity.upsert">>
                    /\ cur.t.email \in contacts
                    /\ Cardinality(Carriers(opps, cur.t.id_)) = 1
                    /\ \A i \in Carriers(opps, cur.t.id_) : opps[i].rd = NoRD

\* the first delivery of a payment of an account that has no series
C12_Witness ==
    /\ ByAccount
    /\ PreSeriesByAccount = NoRD
    /\ cur.t.email # NoEmail
    /\ out = ""
    /\ Len(opps) = Len(pre.opps) + 1
    /\ opps[Len(opps)].txn = cur.t.id_
    /\ opps[Len(opps)].rd = NoRD
    /\ io = <<"RecurringDonation.get", "Contact.upsert", "Opportunity.upsert">>

\* ---- the installment period (SpecPeriod)
\* C13: from_dict gives monthly for a day gap of 27..31, yearly for 361..366 and
\* no period for every other gap (26, 32, 45, 360, 367 among them); for a
\* CANCELLED or SUSPENDED subscription it gives no period and does not fail,
\* whether or not the payload has a next billing time.
C13_PeriodFromDayGap ==
    built # NotBuilt =>
        /\ data.status \in {"CANCELLED", "SUSPENDED"} =>
              built.err = "" /\ built.sub.period = "none"
        /\ (data.status \notin {"CANCELLED", "SUSPENDED"} /\ data.has_next) =>
              /\ built.err = ""
              /\ built.sub.period = "monthly" <=> data.gap \in 27..31
              /\ built.sub.period = "yearly" <=> data.gap \in 361..366
              /\ built.sub.period = "none" <=> data.gap \notin (27..31) \cup (361..366)
              /\ data.gap \in {26, 32, 45, 360, 367} => built.sub.period = "none"

\* the lower end of the yearly window
C13_Witness ==
    /\ data.status = "ACTIVE"
    /\ data.gap = 361
    /\ built.err = ""
    /\ built.sub.period = "yearly"

\* a cancelled subscription whose payload has no next billing time
C13_WitnessCancelled ==
    /\ data.status = "CANCELLED"
    /\ ~data.has_next
    /\ built.err = ""
    /\ built.sub.period = "none"

\* the gaps next to the windows
C13_WitnessOutside ==
    /\ data.status = "ACTIVE"
    /\ data.gap \in {26, 32, 360, 367}
    /\ built.err = ""
    /\ built.sub.period = "none"

\* ---- refunds and closure (SpecRefund)
\* C14: no delivery changes the open_ended_status of an existing
\* RecurringDonation except to Closed, and none removes a RecurringDonation: a
\* Closed record stays Closed, and Open appears only on records that are new.
C14_ClosedNeverReopens ==
    /\ Len(rds) >= Len(pre.rds)
    /\ \A r \in 1..Len(pre.rds) :
          /\ pre.rds[r].status = "Closed" => rds[r].status = "Closed"
          /\ rds[r].status # pre.rds[r].status => rds[r].status = "Closed"

\* a payment of an ACTIVE subscription is reconciled into a Closed series
C14_Witness ==
    /\ BySubscription
    /\ PreSeries # 0
    /\ pre.rds[PreSeries].status = "Closed"
    /\ cur.answer.status = "ACTIVE"
    /\ Called("RecurringDonation.opportunities")
    /\ out = ""
    /\ rds[PreSeries].status = "Closed"

\* a refund of an installment of a Closed series
C14_WitnessRefund ==
    /\ Handled
    /\ branch = "Refund"
    /\ out = ""
    /\ Called("RecurringDonation.get")
    /\ \E r \in 1..Len(pre.rds) : pre.rds[r].status = "Closed" /\ rds[r].status = "Closed"

\* the Opportunity a delivered refund references, 0 if there is none
Referenced == Opportunity_get(pre, cur.t.reference_id)

IsRefund ==
    /\ Handled
    /\ branch = "Refund"

\* C17: a refund that references a known Opportunity linked to an Open
\* RecurringDonation whose subscription the vendor reports CANCELLED leaves that
\* RecurringDonation Closed, and saved.
C17_RefundClosesCancelledSeries ==
    (/\ IsRefund
     /\ Referenced # 0
     /\ pre.opps[Referenced].rd # NoRD
     /\ pre.rds[pre.opps[Referenced].rd].status = "Open"
     /\ cur.answer.status = "CANCELLED") =>
        /\ rds[pre.opps[Referenced].rd].status = "Closed"
        /\ Called("RecurringDonation.save")

\* C18: a refund whose reference_id matches no Opportunity ends in an error
\* raised to the caller, having made one Storage read, no Storage write and no
\* vendor call, and leaves the CRM as it was.
C18_RefundOfUnknownFails ==
    (IsRefund /\ Referenced = 0) =>
        /\ out # ""
        /\ io = <<"Opportunity.get">>
        /\ crm = <<pre.contacts, pre.rds, pre.opps>>

C18_Witness ==
    /\ IsRefund
    /\ cur.t.reference_id = "X9"
    /\ pre.opps # <<>>
    /\ out = "AttributeError"
    /\ io = <<"Opportunity.get">>
    /\ opps = pre.opps

\* position of the first call op in io, 0 if it was not made
FirstCall(op) ==
    IF Called(op) THEN CHOOSE k \in 1..Len(io) : io[k] = op /\ \A j \in 1..(k - 1) : io[j] # op
    ELSE 0

\* C19: a refund that references a known Opportunity first sets its stage_name
\* to Refunded and saves it, changing no other Opportunity; the vendor is asked,
\* after that save, exactly when the Opportunity is linked to a RecurringDonation
\* that is not Closed; in the other two cases no RecurringDonation is written.
C19_RefundMarksThenAsksVendor ==
    (IsRefund /\ Referenced # 0) =>
        /\ Len(io) >= 2
        /\ io[1] = "Opportunity.get"
        /\ io[2] = "Opportunity.save"
        /\ opps = [pre.opps EXCEPT ![Referenced].stage = "Refunded"]
        /\ Called("Vendor.get_subscription") <=>
              /\ pre.opps[Referenced].rd # NoRD
              /\ pre.rds[pre.opps[Referenced].rd].status # "Closed"
        /\ Called("Vendor.get_subscription") => FirstCall("Vendor.get_subscription") > 2
        /\ pre.opps[Referenced].rd = NoRD => io = <<"Opportunity.get", "Opportunity.save">>
        /\ ~Called("Vendor.get_subscription") =>
              ~Called("RecurringDonation.save") /\ rds = pre.rds

\* a refund of an installment of a series that is already Closed
C19_Witness ==
    /\ IsRefund
    /\ Referenced # 0
    /\ pre.opps[Referenced].rd # NoRD
    /\ pre.rds[pre.opps[Referenced].rd].status = "Closed"
    /\ opps[Referenced].stage = "Refunded"
    /\ io = <<"Opportunity.get", "Opportunity.save", "RecurringDonation.get">>

\* a refund of an installment of an Open series: the vendor is asked
C19_WitnessOpen ==
    /\ IsRefund
    /\ Referenced # 0
    /\ pre.opps[Referenced].rd # NoRD
    /\ pre.rds[pre.opps[Referenced].rd].status = "Open"
    /\ opps[Referenced].stage = "Refunded"
    /\ io = <<"Opportunity.get", "Opportunity.save", "RecurringDonation.get",
              "Vendor.get_subscription">>

\* a refund of a standalone Opportunity
C19_WitnessStandalone ==
    /\ IsRefund
    /\ Referenced # 0
    /\ pre.opps[Referenced].rd = NoRD
    /\ opps[Referenced].stage = "Refunded"
    /\ io = <<"Opportunity.get", "Opportunity.save">>

\* ---- closure and first sighting on the subscription path (Spec)
\* process_subscription_payment ran for a subscription that has a RecurringDonation
ExistingSeriesPayment ==
    /\ BySubscription
    /\ PreSeries # 0
    /\ Called("RecurringDonation.get")

\* C15: after process_subscription_payment for a subscription that already has
\* a RecurringDonation, the record is Closed exactly when it was Closed before or
\* the subscription is CANCELLED; ACTIVE and SUSPENDED leave every
\* RecurringDonation as it was and save none; the closing save comes before the
\* Opportunities are listed for the matcher, so it stays whatever happens next.
C15_ClosedIffCancelledOrClosedBefore ==
    ExistingSeriesPayment =>
        /\ rds[PreSeries].status = "Closed" <=>
              (pre.rds[PreSeries].status = "Closed" \/ cur.answer.status = "CANCELLED")
        /\ cur.answer.status \in {"ACTIVE", "SUSPENDED"} =>
              rds = pre.rds /\ ~Called("RecurringDonation.save")
        /\ cur.answer.status = "CANCELLED" =>
              /\ FirstCall("RecurringDonation.save") # 0
              /\ FirstCall("RecurringDonation.save") < FirstCall("RecurringDonation.opportunities")

\* the series is closed although the step after the matcher failed
C15_Witness ==
    /\ ExistingSeriesPayment
    /\ pre.rds[PreSeries].status = "Open"
    /\ cur.answer.status = "CANCELLED"
    /\ out # ""
    /\ rds[PreSeries].status = "Closed"

\* a suspended subscription leaves an Open series Open
C15_WitnessSuspended ==
    /\ ExistingSeriesPayment
    /\ pre.rds[PreSeries].status = "Open"
    /\ cur.answer.status = "SUSPENDED"
    /\ rds[PreSeries].status = "Open"

\* process_subscription_payment ran for a subscription that has no RecurringDonation
FirstSighting ==
    /\ BySubscription
    /\ PreSeries = 0
    /\ Called("RecurringDonation.get")

\* C16: on first sighting of a subscription that is CANCELLED or SUSPENDED or
\* has no supported installment period, the payment is handled as a
\* SingleOpportunity (Contact upsert, then upsert of a standalone Opportunity)
\* and no RecurringDonation is created; otherwise a Contact and an Open
\* RecurringDonation of the subscription, with the derived period, are created.
C16_FirstSightingFallback ==
    FirstSighting =>
        /\ (cur.answer.status \in {"CANCELLED", "SUSPENDED"} \/ AnswerPeriod = "none") =>
              /\ rds = pre.rds
              /\ out = ""
              /\ io = <<"Vendor.get_subscription", "RecurringDonation.get",
                        "Contact.upsert", "Opportunity.upsert">>
              /\ contacts = pre.contacts \cup {find_email(cur.t, RawSubscription(cur.t.reference_id, cur.answer))}
              /\ Cardinality(Carriers(opps, cur.t.id_)) = 1
              /\ \A i \in Carriers(opps, cur.t.id_) : opps[i].rd = NoRD
              /\ \A i \in 1..Len(pre.opps) : opps[i] = pre.opps[i]
        /\ (cur.answer.status = "ACTIVE" /\ AnswerPeriod # "none") =>
              /\ Len(rds) = Len(pre.rds) + 1
              /\ rds[Len(rds)].sub = cur.t.reference_id
              /\ rds[Len(rds)].status = "Open"
              /\ rds[Len(rds)].period = AnswerPeriod
              /\ rds[Len(rds)].contact \in contacts
              /\ FirstCall("Contact.upsert") = 3
              /\ FirstCall("RecurringDonation.save") = 4

\* a suspended subscription seen for the first time: a standalone Opportunity
C16_Witness ==
    /\ FirstSighting
    /\ cur.answer.status = "SUSPENDED"
    /\ out = ""
    /\ rds = pre.rds
    /\ Len(opps) = Len(pre.opps) + 1
    /\ opps[Len(opps)].txn = cur.t.id_
    /\ opps[Len(opps)].rd = NoRD

\* an active subscription with a 45-day gap seen for the first time
C16_WitnessUnsupportedGap ==
    /\ FirstSighting
    /\ cur.answer.status = "ACTIVE"
    /\ cur.answer.gap = 45
    /\ rds = pre.rds
    /\ Len(opps) = Len(pre.opps) + 1
    /\ opps[Len(opps)].rd = NoRD

\* an active monthly subscription seen for the first time
C16_WitnessSeries ==
    /\ FirstSighting
    /\ cur.answer.status = "ACTIVE"
    /\ cur.answer.gap = 30
    /\ Len(rds) = Len(pre.rds) + 1
    /\ rds[Len(rds)].status = "Open"

\* ---- Ignore (SpecClassify)
\* the delivered transaction is one the dispatch table classifies as Ignore
ClassifiedIgnore ==
    /\ Handled
    /\ \/ Code \in IgnoredCodes
       \/ Code = "T0000" /\ Gross < 0
       \/ Code = "T1107" /\ Gross > 0
       \/ Code = "T0002" /\ Gross < 0

\* C20: a transaction classified as Ignore (a skip-list code, a negative T0000,
\* a positive T1107, a negative T0002) takes the Ignore branch, which makes no
\* Storage or vendor call, raises nothing and leaves every Contact,
\* RecurringDonation and Opportunity as it was; no other transaction takes it.
C20_IgnoreIsTerminal ==
    /\ ClassifiedIgnore =>
          /\ branch = "Ignore"
          /\ io = <<>>
          /\ out = ""
          /\ contacts = pre.contacts
          /\ rds = pre.rds
          /\ opps = pre.opps
    /\ (Handled /\ branch = "Ignore") => ClassifiedIgnore

\* a negative subscription payment, not settled, with a series in the CRM
C20_Witness ==
    /\ Code = "T0002"
    /\ Gross < 0
    /\ cur.t.status = "P"
    /\ branch = "Ignore"
    /\ io = <<>>
    /\ pre.opps # <<>>
    /\ opps = pre.opps

\* ---- SingleOpportunity (SpecClassify)
\* the delivered transaction is one the dispatch table classifies as SingleOpportunity
ClassifiedSingle ==
    /\ Handled
    /\ \/ Code \in {"T0013", "T0011", "T0001"}
       \/ Code = "T0000" /\ Gross >= 0

\* C21: a transaction classified as SingleOpportunity (T0013, T0011, T0001,
\* non-negative T0000) upserts the Contact of its email and then the standalone
\* Opportunity keyed by its transaction id, and makes no other call: no
\* RecurringDonation is read, created or changed and the vendor is not asked.
C21_SingleOpportunityFrame ==
    ClassifiedSingle =>
        /\ branch = "SingleOpportunity"
        /\ rds = pre.rds
        /\ ~Called("RecurringDonation.get")
        /\ ~Called("RecurringDonation.save")
        /\ ~Called("RecurringDonation.opportunities")
        /\ ~Called("Vendor.get_subscription")
        /\ cur.t.email # NoEmail =>
              /\ out = ""
              /\ io = <<"Contact.upsert", "Opportunity.upsert">>
              /\ contacts = pre.contacts \cup {cur.t.email}
              /\ Carriers(opps, cur.t.id_) # {}
              /\ \A i \in 1..Len(pre.opps) : opps[i] = pre.opps[i]
              /\ Carriers(pre.opps, cur.t.id_) # {} => opps = pre.opps
              /\ Carriers(pre.opps, cur.t.id_) = {} =>
                    /\ Len(opps) = Len(pre.opps) + 1
                    /\ opps[Len(opps)].rd = NoRD

\* a donation payment with a series in the CRM: a standalone Opportunity is added
C21_Witness ==
    /\ Code = "T0013"
    /\ branch = "SingleOpportunity"
    /\ io = <<"Contact.upsert", "Opportunity.upsert">>
    /\ pre.rds # <<>>
    /\ rds = pre.rds
    /\ Len(opps) = Len(pre.opps) + 1
    /\ opps[Len(opps)].txn = cur.t.id_
    /\ opps[Len(opps)].rd = NoRD

\* ---- the vendor's answer on the subscription path (SpecStatus)
VendorCalls == {k \in 1..Len(io) : io[k] = "Vendor.get_subscription"}

\* C22: a subscription payment that carries a subscription id asks the vendor
\* for the subscription exactly once, before any Storage call; when the status
\* fetched is not ACTIVE, CANCELLED or SUSPENDED an error is raised with no
\* Storage read or write made.
C22_VendorFirstUnknownStatusFatal ==
    BySubscription =>
        /\ VendorCalls = {1}
        /\ cur.answer.status \notin {"ACTIVE", "CANCELLED", "SUSPENDED"} =>
              /\ out # ""
              /\ io = <<"Vendor.get_subscription">>
              /\ crm = <<pre.contacts, pre.rds, pre.opps>>

\* an expired subscription whose payload parses
C22_Witness ==
    /\ BySubscription
    /\ cur.answer.status = "EXPIRED"
    /\ cur.answer.has_next
    /\ out = "Exception: unknown subscription status"
    /\ io = <<"Vendor.get_subscription">>
    /\ pre.opps # <<>>

\* a known status: Storage is reached, after the one vendor call
C22_WitnessKnown ==
    /\ BySubscription
    /\ cur.answer.status = "SUSPENDED"
    /\ VendorCalls = {1}
    /\ Len(io) > 1
    /\ io[2] = "RecurringDonation.get"

\* ---- the branches after the matcher (Spec)
\* C27: for a subscription that has a RecurringDonation and is CANCELLED or
\* SUSPENDED, a payment with installments in the series but none within 10 days
\* creates a new Opportunity linked to the RecurringDonation and raises nothing.
C27_InstallmentWithoutPeriod ==
    (NoCandidateInTolerance /\ cur.answer.status \in {"CANCELLED", "SUSPENDED"}) =>
        /\ out = ""
        /\ InstallmentAdded(PreSeries)

\* the series of the delivered payment has an installment within 10 days of it
CandidateInTolerance ==
    /\ BySubscription
    /\ PreSeries # 0
    /\ \E i \in Linked(pre.opps, PreSeries) :
          Abs(pre.opps[i].close_date - cur.t.transaction_date) <= 10

\* Opportunity i of the series before the delivery was as close to the payment as any
WasClosest(i) ==
    \A j \in Linked(pre.opps, PreSeries) :
        Abs(pre.opps[i].close_date - cur.t.transaction_date)
            <= Abs(pre.opps[j].close_date - cur.t.transaction_date)

C29_TransactionIdsKept ==
    (BySubscription /\ out = "") =>
        \A i \in 1..Len(pre.opps) :
            (/\ pre.opps[i].txn \notin {"none", cur.t.id_}
             /\ pre.opps[i].rd = PreSeries
             /\ Abs(pre.opps[i].close_date - cur.t.transaction_date) <= 10) =>
                Carriers(opps, pre.opps[i].txn) # {}

\* ---- refunds and later deliveries (SpecRefund)
\* C30: an Opportunity whose stage_name is Refunded keeps that stage_name under
\* every later delivery.
C30_RefundedStaysRefunded ==
    \A i \in 1..Len(pre.opps) :
        pre.opps[i].stage = "Refunded" => opps[i].stage = "Refunded"

\* ---- two workers (SpecRace)
\* C23: whatever the interleaving of the Storage calls of two workers that
\* reconcile payments of the same new subscription, at most one RecurringDonation
\* exists for a subscription id.
C23_OneSeriesPerSubscription ==
    \A a, b \in 1..Len(rds) : rds[a].sub = rds[b].sub => a = b

\* ---- abandoned runs (SpecAbort)
Finished(k) == wk[k].pc \in {"done", "failed"}

\* the handling of worker k's transaction in one piece, from the CRM as it was
\* when the worker was first given it
Uninterrupted(k, ord) ==
    handle_paypal_charge_external_initiation(
        [contacts |-> wk[k].base.contacts, rds |-> wk[k].base.rds, opps |-> wk[k].base.opps,
         io |-> <<>>, out |-> "", branch |-> ""],
        wk[k].t, wk[k].answer, ord)

\* the CRM is as one uninterrupted run leaves it
AsUninterrupted(k, ord) ==
    /\ contacts = Uninterrupted(k, ord).contacts
    /\ rds = Uninterrupted(k, ord).rds
    /\ opps = Uninterrupted(k, ord).opps

\* C24: when the handling of a transaction was abandoned after some of its
\* Storage calls and started again, the second run completes and leaves the CRM
\* as one uninterrupted run would have.
C24_ReinvokedRunCompletes ==
    (Finished(1) /\ wk[1].runs > 1) =>
        /\ wk[1].pc = "done"
        /\ \E ord \in Orders(Len(wk[1].base.opps)) : AsUninterrupted(1, ord)

\* What does hold: a finished run, abandoned before or not, leaves the CRM as
\* one uninterrupted run does, and fails exactly when that run fails, with the
\* same exception.
FinishedRunsAgreeWithHandler ==
    Finished(1) =>
        \E ord \in Orders(Len(wk[1].base.opps)) :
            /\ AsUninterrupted(1, ord)
            /\ Uninterrupted(1, ord).out = wk[1].err
            /\ wk[1].pc = "done" <=> wk[1].err = ""


\* the last attendee update ran to its end on an attendee Eventbrite knows
Completed ==
    /\ eb.run.ret = "True"
    /\ eb.run.attendee.valid_email
    /\ eb.run.attendee.found

\* the records that have new's values in the key fields
Having(records, key, new) ==
    {i \in 1..Len(records) : \A f \in key : records[i][f] = new[f]}

MemberOfRun ==
    [contact_id |-> eb.run.attendee.email, campaign_id |-> eb.run.event.id,
     eventbrite_id |-> eb.run.attendee.id]

\* C25: after every completed run of handle_attendee_updated the attendee's
\* CampaignMember carries the status its current Eventbrite status maps to; and
\* when the run repeats the update of the run before it, it creates no record and
\* leaves the CRM as the first run left it, with exactly one Contact for the
\* email, one Campaign for the event, one CampaignMember for the attendee and at
\* most one Opportunity for the attendee id.
C25_SameUpdateTwice ==
    Completed =>
        /\ \A i \in Having(eb.store.members, CampaignMemberKey, MemberOfRun) :
              eb.store.members[i].status = attendee_status_map[eb.run.attendee.status]
        /\ Having(eb.store.members, CampaignMemberKey, MemberOfRun) # {}
        /\ eb.again =>
              /\ Len(eb.store.contacts) = Len(eb.pre.contacts)
              /\ Len(eb.store.campaigns) = Len(eb.pre.campaigns)
              /\ Len(eb.store.members) = Len(eb.pre.members)
              /\ Len(eb.store.opps) = Len(eb.pre.opps)
              /\ eb.store = eb.pre
              /\ Cardinality(Having(eb.store.contacts, ContactKey,
                                    [email |-> eb.run.attendee.email])) = 1
              /\ Cardinality(Having(eb.store.campaigns, CampaignKey,
                                    [eventbrite_id |-> eb.run.event.id])) = 1
              /\ Cardinality(Having(eb.store.members, CampaignMemberKey, MemberOfRun)) = 1
              /\ Cardinality(Having(eb.store.opps, OpportunityKey,
                                    [eventbrite_id |-> eb.run.attendee.id])) <= 1

C25_Witness ==
    /\ Completed
    /\ eb.again
    /\ Len(eb.store.opps) = 1
    /\ eb.store.members[1].status = "Checked In"

\* the fields in which the record at position i differs after the run
Changed(before, after, i) ==
    {f \in DOMAIN before[i] : after[i][f] # before[i][f]}

\* C26: a record that was in the CRM before a run of handle_attendee_updated is
\* still there after it, and differs only in allow-listed fields: an Opportunity
\* in amount, donor_selected_amount, eventbrite_ticket_type, name, net_amount,
\* record_type_name, stage_name (so never in close_date, campaign_id, account_id,
\* eventbrite_id); a Campaign in name and status; a CampaignMember in status.
C26_OnlyOverwriteFieldsChange ==
    /\ \A i \in 1..Len(eb.pre.opps) :
          /\ i <= Len(eb.store.opps)
          /\ Changed(eb.pre.opps, eb.store.opps, i) \subseteq
                {"amount", "donor_selected_amount", "eventbrite_ticket_type", "name",
                 "net_amount", "record_type_name", "stage_name"}
          /\ Changed(eb.pre.opps, eb.store.opps, i) \cap
                {"close_date", "campaign_id", "account_id", "eventbrite_id"} = {}
    /\ \A i \in 1..Len(eb.pre.campaigns) :
          /\ i <= Len(eb.store.campaigns)
          /\ Changed(eb.pre.campaigns, eb.store.campaigns, i) \subseteq {"name", "status"}
    /\ \A i \in 1..Len(eb.pre.members) :
          /\ i <= Len(eb.store.members)
          /\ Changed(eb.pre.members, eb.store.members, i) \subseteq {"status"}

\* a later sighting that differs from the stored records in fields outside the
\* lists (the attendee's email, the event's start) and in fields inside them
C26_Witness ==
    /\ Completed
    /\ Len(eb.pre.opps) = 1
    /\ Len(eb.pre.campaigns) = 1
    /\ eb.run.attendee.category = "admission"
    /\ eb.run.attendee.gross > 0
    /\ eb.pre.opps[1].account_id # eb.run.attendee.email
    /\ eb.pre.campaigns[1].start_date # eb.run.event.start
    /\ "amount" \in Changed(eb.pre.opps, eb.store.opps, 1)
    /\ "name" \in Changed(eb.pre.campaigns, eb.store.campaigns, 1)
    /\ \E i \in 1..Len(eb.pre.members) :
          "status" \in Changed(eb.pre.members, eb.store.members, i)

\* ---- the guard of recurring_donation_from_paypal_subscription (SpecStatus)
\* the delivery reached line 391: no RecurringDonation was found, the Contact was
\* upserted, and what follows is not the upsert of a standalone Opportunity
ConstructionReached ==
    /\ FirstSighting
    /\ Len(io) >= 3
    /\ io[3] = "Contact.upsert"
    /\ Len(io) >= 4 => io[4] # "Opportunity.upsert"

\* C31: no delivery ends in the "not ACTIVE" exception of
\* recurring_donation_from_paypal_subscription; whenever a RecurringDonation is
\* constructed, the subscription is ACTIVE, its period is monthly or yearly, and
\* the record is saved with that period.
C31_ConstructedOnlyWhenActive ==
    /\ out # "Exception: not ACTIVE"
    /\ ConstructionReached =>
          /\ cur.answer.status = "ACTIVE"
          /\ AnswerPeriod \in {"monthly", "yearly"}
          /\ Len(io) >= 4
          /\ io[4] = "RecurringDonation.save"
          /\ Len(rds) = Len(pre.rds) + 1
          /\ rds[Len(rds)].period = AnswerPeriod
          /\ rds[Len(rds)].sub = cur.t.reference_id

C31_Witness ==
    /\ ConstructionReached
    /\ Len(rds) = Len(pre.rds) + 1
    /\ rds[Len(rds)].period = "monthly"
    /\ rds[Len(rds)].status = "Open"

\* first sightings that do not reach the construction: not ACTIVE, or no period
C31_WitnessSetAside ==
    /\ FirstSighting
    /\ cur.answer.status = "SUSPENDED"
    /\ ~ConstructionReached
    /\ out = ""

\* ---- the import loop (SpecImport)
\* the transactions of the import in the order of the organizations and, within
\* one, of the vendor's list: the number of those before transaction at of org
RECURSIVE Before(_, _)
Before(org, at) ==
    IF org = 1 THEN at - 1 ELSE Before(org - 1, Len(imp.batches[org - 1]) + 1) + at - 1

\* C32: the transactions reconciled so far are the first ones of the import in
\* the order of the organizations and of the vendor's lists, each once; all but
\* the last ended without exception; the import has failed exactly when the last
\* one raised, and then no later transaction of the organization and no
\* transaction of a later organization is reconciled: the later CRMs are
\* untouched and the task stays where it failed.
C32_ImportStopsAtFirstFailure ==
    imp.state # "idle" =>
        /\ \A k \in 1..Len(imp.reconciled) :
              /\ Before(imp.reconciled[k].org, imp.reconciled[k].at) = k - 1
              /\ imp.reconciled[k].at \in 1..Len(imp.batches[imp.reconciled[k].org])
              /\ k < Len(imp.reconciled) => imp.reconciled[k].out = ""
        /\ Len(imp.reconciled) =
              Before(imp.org, imp.at) + (IF imp.state = "failed" THEN 1 ELSE 0)
        /\ imp.state = "failed" <=>
              /\ imp.reconciled # <<>>
              /\ imp.reconciled[Len(imp.reconciled)].out # ""
        /\ imp.state = "failed" =>
              /\ imp.raised = imp.reconciled[Len(imp.reconciled)].out
              /\ \A o \in (imp.org + 1)..Len(Orgs) : imp.crms[o] = EmptyCRM
              /\ ~ENABLED ReconcileNext
              /\ ~ENABLED NextOrganization
        /\ imp.state = "done" =>
              Len(imp.reconciled) = Before(Len(Orgs), Len(imp.batches[Len(Orgs)]) + 1)

\* the first organization's second transaction has an unknown event code: its
\* first was reconciled, and the second organization's donation is not
C32_Witness ==
    /\ imp.state = "failed"
    /\ imp.raised = "Exception: Unknown event code"
    /\ imp.org = 1
    /\ Len(imp.reconciled) = 2
    /\ imp.crms[1].opps # <<>>
    /\ Len(imp.batches[2]) = 2
    /\ imp.batches[2][1].event_code = "T0000"
    /\ imp.crms[2] = EmptyCRM

\* the failing transaction is the first of the first organization
C32_WitnessLaterTransaction ==
    /\ imp.state = "failed"
    /\ imp.org = 1
    /\ imp.at = 1
    /\ Len(imp.batches[1]) = 2
    /\ imp.batches[1][2].event_code = "T0013"
    /\ imp.crms[1] = EmptyCRM

\* ---- the order of the upserts of handle_attendee_updated (SpecEventbrite)
\* the last run had a valid email and fetched the attendee and the event
ValidAttendee ==
    /\ eb.run.attendee.valid_email
    /\ eb.run.attendee.response = 200
    /\ eb.run.event.response = 200

\* the upserts of the last run, in the order made
Upserts ==
    SelectSeq(eb.run.calls,
              LAMBDA c : c \in {"Campaign.upsert", "Contact.upsert", "CampaignMember.upsert",
                                "Opportunity.upsert"})

\* the ticket is one an Opportunity is kept for
OpportunityWanted ==
    /\ eb.run.attendee.category # "add_on"
    /\ eb.run.attendee.category \in {"admission", "donation"}
    /\ type_map[eb.run.attendee.category] \notin {"ignore", "Ignore", "IGNORE"}
    /\ eb.run.attendee.gross > 0

\* C33: a run of handle_attendee_updated for a valid attendee upserts the
\* Campaign, then the Contact, then the CampaignMember; an Opportunity is
\* upserted only after these and only when the ticket category is not add_on, its
\* record type is not "ignore" and the gross amount is above 0; in every other
\* case the Opportunities are as they were.
C33_UpsertsInOrder ==
    /\ ValidAttendee =>
          /\ Len(Upserts) >= 3
          /\ SubSeq(Upserts, 1, 3) = <<"Campaign.upsert", "Contact.upsert", "CampaignMember.upsert">>
          /\ Len(Upserts) = 4 => (Upserts[4] = "Opportunity.upsert" /\ OpportunityWanted)
          /\ Len(Upserts) <= 4
    /\ (~ValidAttendee \/ ~OpportunityWanted) => eb.store.opps = eb.pre.opps

\* for the four statuses upsert_campaign_member knows, the order and the
\* conditions are as C33 says, and the Opportunity is upserted whenever wanted
KnownStatusUpsertsInOrder ==
    /\ (ValidAttendee /\ eb.run.attendee.status \in DOMAIN attendee_status_map) =>
          /\ Len(Upserts) >= 3
          /\ SubSeq(Upserts, 1, 3) = <<"Campaign.upsert", "Contact.upsert", "CampaignMember.upsert">>
          /\ Len(Upserts) = 4 <=> OpportunityWanted
          /\ Len(Upserts) = 4 => Upserts[4] = "Opportunity.upsert"
          /\ Len(Upserts) <= 4
    /\ (ValidAttendee /\ eb.run.attendee.status \notin DOMAIN attendee_status_map) =>
          /\ Upserts = <<"Campaign.upsert", "Contact.upsert">>
          /\ eb.run.ret = "KeyError"
    /\ (~ValidAttendee \/ ~OpportunityWanted) => eb.store.opps = eb.pre.opps

\* ---- early ends of handle_attendee_updated (SpecEventbrite)
AttendeeHandled == eb.run.ret # "none"

\* the task layer retries a task that raised (autoretry_for Exception)
Retried == eb.run.ret \notin {"none", "None", "True"}

VendorOnly ==
    \A k \in 1..Len(eb.run.calls) :
        eb.run.calls[k] \in {"Vendor.get_event_attendee", "Vendor.get_event"}

\* C34: a run for an invalid email returns None having made no vendor call and
\* no CRM write; a run whose attendee Eventbrite answers with 404 returns True
\* after that one call, with no CRM write and no retry; a run that gets a 429
\* answer raises RateLimitException having written nothing to the CRM, and is
\* retried.
C34_EarlyEndsWriteNothing ==
    AttendeeHandled =>
        /\ ~eb.run.attendee.valid_email =>
              /\ eb.run.ret = "None"
              /\ eb.run.calls = <<>>
              /\ eb.store = eb.pre
              /\ ~Retried
        /\ (eb.run.attendee.valid_email /\ eb.run.attendee.response = 404) =>
              /\ eb.run.ret = "True"
              /\ eb.run.calls = <<"Vendor.get_event_attendee">>
              /\ eb.store = eb.pre
              /\ ~Retried
        /\ (eb.run.attendee.valid_email /\ eb.run.attendee.response = 429) =>
              /\ eb.run.ret = "RateLimitException"
              /\ eb.run.calls = <<"Vendor.get_event_attendee">>
              /\ eb.store = eb.pre
              /\ Retried
        /\ (eb.run.attendee.valid_email /\ eb.run.attendee.response = 200
              /\ eb.run.event.response = 429) =>
              /\ eb.run.ret = "RateLimitException"
              /\ VendorOnly
              /\ eb.store = eb.pre
              /\ Retried

\* a rate-limit answer for an attendee the CRM already has records of
C34_Witness ==
    /\ AttendeeHandled
    /\ eb.run.attendee.valid_email
    /\ eb.run.attendee.response = 429
    /\ eb.run.ret = "RateLimitException"
    /\ eb.pre.opps # <<>>
    /\ eb.store = eb.pre

C34_WitnessInvalidEmail ==
    /\ AttendeeHandled
    /\ ~eb.run.attendee.valid_email
    /\ eb.run.calls = <<>>
    /\ eb.pre.members # <<>>

C34_WitnessNotFound ==
    /\ AttendeeHandled
    /\ eb.run.attendee.response = 404
    /\ eb.run.ret = "True"
    /\ eb.pre.members # <<>>

C34_WitnessEventRateLimit ==
    /\ AttendeeHandled
    /\ eb.run.attendee.response = 200
    /\ eb.run.event.response = 429
    /\ Len(eb.run.calls) = 2
    /\ eb.pre.members # <<>>

\* ---- what queue_request enqueues (SpecQueue)
Requested == mq.ret # "none"

\* the tasks the last request added to queue q
Added(q) == SubSeq(mq.queues[q], Len(mq.pre[q]) + 1, Len(mq.queues[q]))

TaskFor(task, arg) == [task |-> task, arg |-> arg, org_slug |-> mq.request.org_slug]

\* C35: a request leaves the tasks that were waiting as they were and adds tasks
\* only to the queue named after its own org_slug, each carrying that org_slug:
\* attendee.updated adds one handle_attendee_updated, event.updated and
\* event.created one handle_event_updated, barcode.checked_in one
\* handle_attendee_checked_in, order.placed / updated / refunded one
\* handle_attendee_updated per attendee of the order, in the order's order; any
\* other action, and any request whose object is answered with 404, adds none.
C35_OwnQueueOnly ==
    Requested =>
        /\ \A q \in QueueNames :
              /\ Len(mq.queues[q]) >= Len(mq.pre[q])
              /\ SubSeq(mq.queues[q], 1, Len(mq.pre[q])) = mq.pre[q]
              /\ q # mq.request.org_slug => Added(q) = <<>>
        /\ Added(mq.request.org_slug) =
              IF mq.request.response = 404 THEN <<>>
              ELSE IF mq.request.action = "attendee.updated"
              THEN <<TaskFor("handle_attendee_updated", "object")>>
              ELSE IF mq.request.action \in {"event.updated", "event.created"}
              THEN <<TaskFor("handle_event_updated", "object")>>
              ELSE IF mq.request.action = "barcode.checked_in"
              THEN <<TaskFor("handle_attendee_checked_in", "object")>>
              ELSE IF mq.request.action \in {"order.placed", "order.updated", "order.refunded"}
              THEN [k \in 1..Len(mq.request.attendees) |->
                       TaskFor("handle_attendee_updated", mq.request.attendees[k])]
              ELSE <<>>

\* an order of two attendees for org2 while a task of org1 waits
C35_Witness ==
    /\ Requested
    /\ mq.request.org_slug = "org2"
    /\ mq.request.action = "order.refunded"
    /\ mq.request.response = 200
    /\ mq.pre["org1"] # <<>>
    /\ Len(Added("org2")) = 2
    /\ mq.queues["org1"] = mq.pre["org1"]

C35_WitnessNothingQueued ==
    /\ Requested
    /\ mq.request.action = "attendee.updated"
    /\ mq.request.response = 404
    /\ mq.queues = mq.pre
    /\ mq.pre["org1"] # <<>>

C35_WitnessUnsupported ==
    /\ Requested
    /\ mq.request.action = "organizer.updated"
    /\ mq.request.response = 200
    /\ mq.ret = "True"
    /\ mq.queues = mq.pre
====
